---- MODULE Spec2Model ----
(***************************************************************************)
(* A model of the commit reporter: the paginated commit retrieval loop,    *)
(* the date-window plumbing of the report pipeline, repository reference   *)
(* resolution, the heuristic change categorizer and its analyzer fallback, *)
(* the commit statistics and the report text.                              *)
(***************************************************************************)
EXTENDS Integers, Sequences, FiniteSets, TLC

VARIABLES
    \* --- getCommits (GitHubService / EnhancedGitHubCommitReporter) ---
    impl,         \* which class's getCommits runs
    total,        \* number of commits the upstream lists for the query
    pc,           \* position in getCommits: "list", "detail", "returned", "raised"
    page,         \* let page
    idx,          \* position of the for-of loop in pageCommits
    pageCommits,  \* response.data of the current list request
    commits,      \* const commits = []
    requests,     \* every HTTP request issued so far, in order
    \* --- extractRepoInfo ---
    repoUrl,      \* the argument, a string as a sequence of tokens
    repoInfo,     \* what extractRepoInfo returned or threw
    upc,          \* "call" before, "done" after
    \* --- a request to ReportController / CommitController ---
    op,           \* the method called
    reqUrl,       \* repoUrl
    fromDate,     \* fromDate (or date)
    toDate,       \* toDate (or date)
    rpc,          \* "entry", "fetch", "done"
    window,       \* since / until of the list request, once issued
    netCalls,     \* network requests issued so far
    outcome,      \* "pending", "ok", "error"
    result,       \* the commits returned
    \* --- filterCommitsByDate ---
    tzLocal,      \* the machine's UTC offset, in hours
    fCommits,     \* the commits argument
    targetDate,   \* the targetDate argument, a day number
    filtered,     \* the value returned
    fpc,          \* "call" before, "done" after
    \* --- generateBasicAnalysis ---
    aCommit,      \* the commit argument: message and file names
    analysisLines, \* the lines of the text returned
    apc,          \* "call" before, "done" after
    \* --- analyzeCommit ---
    hasKey,  \* this.openai is set: an analyzer credential is configured
    aiReply,  \* what the external call does: throws, times out, or the response it returns
    aiResult,  \* what analyzeCommit returned or raised
    zpc, \* "call", "external", "done"
    \* --- getCommitStatistics / getReportStatistics ---
    sCommits,  \* the commits argument
    sImpl,  \* which statistics function runs
    statistics,  \* the object returned
    spc, \* "call" before, "done" after
    \* --- generateQuickReport / generateEnhancedReport (ReportService) ---
    rType,  \* "quick" or "enhanced"
    rZone,  \* the machine's UTC offset, in hours
    reports,  \* the report text returned for each format asked for, as lines
    rendered, \* the formats asked for so far
    \* --- generateFilename (ReportService / ReportView) ---
    clock,  \* the time, in half seconds since the process started
    synth, \* the filename syntheses made so far: when, by which class, for what, and the name
    \* --- The API routes (routes/api.js) ---
    route,  \* the route the request came to
    body,  \* req.body: the fields given, and their values
    hpc,  \* the handler's position
    responses,  \* the responses sent for the request, in order
    unhandled, \* TRUE once a failure left the handler uncaught
    \* --- ReportController.generateEnhancedReport: the analysis of one commit ---
    openaiKey,  \* whether the caller supplied an openaiKey
    accomplished,  \* the text under 'What you accomplished'
    epc, \* the position in the commit's block
    \* --- QuickGitHubCommitReporter.getCommitsForDate ---
    qTarget,  \* the targetDate argument
    qTotal,  \* how many commits the upstream lists for the request
    qPage,  \* page
    qRequests,  \* the params of the list requests sent, in order
    qCommits,  \* how many detailed commits were pushed
    qpc, \* the position in getCommitsForDate
    \* --- ReportController.generateQuickReport / generateEnhancedReport ---
    cCommits,  \* the commits getCommitsForDateRange returned
    cAuthor,  \* the author argument; the empty string when none is given
    cType,  \* quick or enhanced
    cFormat,  \* the format argument
    cResult,  \* the report data returned
    cpc  \* the position in the method

fetchVars == <<impl, total, pc, page, idx, pageCommits, commits, requests>>

urlVars == <<repoUrl, repoInfo, upc>>

rangeVars == <<op, reqUrl, fromDate, toDate, rpc, window, netCalls, outcome, result>>

filterVars == <<tzLocal, fCommits, targetDate, filtered, fpc>>

analysisVars == <<aCommit, analysisLines, apc>>

analyzeVars == <<hasKey, aiReply, aiResult, zpc>>

statsVars == <<sCommits, sImpl, statistics, spc>>

renderVars == <<rType, rZone, reports, rendered>>

filenameVars == <<clock, synth>>

routeVars == <<route, body, hpc, responses, unhandled>>

enhancedVars == <<openaiKey, accomplished, epc>>

quickVars == <<qTarget, qTotal, qPage, qRequests, qCommits, qpc>>

controllerVars == <<cCommits, cAuthor, cType, cFormat, cResult, cpc>>

vars == <<fetchVars, urlVars, rangeVars, filterVars, analysisVars, analyzeVars, statsVars, renderVars, filenameVars, routeVars, enhancedVars, quickVars, controllerVars>>

(***************************************************************************)
(* Bounds of the model.                                                    *)
(***************************************************************************)
\* per_page of the list request (the code's default is 100)
PerPage == 2
\* the largest number of commits the upstream lists
MaxCommits == 5
\* the longest repository reference, in tokens after the prefix
MaxUrlLen == 5
\* the last calendar day a request may name
MaxDay == 4
\* the longest commit sequence handed to filterCommitsByDate
MaxFilterLen == 2
\* the most files a commit handed to generateBasicAnalysis changes
MaxFiles == 2
\* the longest commit sequence handed to the statistics and report functions
MaxStatCommits == 2
\* the most commits, each by another author on two other files, in a sequence
MaxWideCommits == 6
\* the half seconds the clock runs for
MaxTick == 3
\* the most filename syntheses in one run
MaxSyntheses == 2

(***************************************************************************)
(* getCommits                                                              *)
(***************************************************************************)
Impls == {"GitHubService", "Enhanced"}

Min(a, b) == IF a < b THEN a ELSE b

\* The upstream's answer to the list request for page k: the shas
\* (k-1)*per_page+1 .. k*per_page of the listing, as far as they exist.
Page(k) ==
    LET first == (k - 1) * PerPage + 1
        last  == Min(k * PerPage, total)
    IN  IF last < first THEN <<>> ELSE [i \in 1..(last - first + 1) |-> first + i - 1]

Request(kind, arg, ok) == [kind |-> kind, arg |-> arg, ok |-> ok]

\* getCommitDetails(owner, repo, sha): the normalized commit, or on a failed
\* request an exception (GitHubService) or null (Enhanced reporter); truthy
\* is what 'if (detailedCommit)' sees.
GetCommitDetails(i, sha, ok) ==
    IF ok THEN [threw |-> FALSE, truthy |-> TRUE, value |-> sha]
    ELSE IF i = "GitHubService" THEN [threw |-> TRUE, truthy |-> FALSE, value |-> sha]
    ELSE [threw |-> FALSE, truthy |-> FALSE, value |-> sha]

\* The catch block around the loop body: GitHubService rethrows, the
\* Enhanced reporter logs and breaks, returning what it has.
OnCatch(i) == IF i = "GitHubService" THEN "raised" ELSE "returned"

\* A push at the front: completion order reversed.
PushCommitFront(cs, c) == <<c>> \o cs

\* commits.push(detailedCommit)
PushCommit(cs, c) == Append(cs, c)

\* No short-page test: only an empty page ends the loop.
IsLastPageNever(pcs) == FALSE

\* if (pageCommits.length < perPage) break;
IsLastPage(pcs) == Len(pcs) < PerPage

\* The state of a getCommits that is not running.
FetchIdle ==
    /\ impl = "none"
    /\ total = 0
    /\ pc = "idle"
    /\ page = 0
    /\ idx = 0
    /\ pageCommits = <<>>
    /\ commits = <<>>
    /\ requests = <<>>

FetchStart ==
    /\ impl \in Impls
    /\ total \in 0..MaxCommits
    /\ pc = "list"
    /\ page = 1
    /\ idx = 0
    /\ pageCommits = <<>>
    /\ commits = <<>>
    /\ requests = <<>>

\* await axios.get(.../commits, {params: {page, per_page, ...}})
ListPage ==
    /\ pc = "list"
    /\ \E ok \in BOOLEAN :
        /\ requests' = Append(requests, Request("list", page, ok))
        /\ IF ~ok
           THEN /\ pc' = OnCatch(impl)
                /\ UNCHANGED <<pageCommits, idx>>
           ELSE IF Page(page) = <<>>
           THEN /\ pc' = "returned"
                /\ UNCHANGED <<pageCommits, idx>>
           ELSE /\ pageCommits' = Page(page)
                /\ idx' = 1
                /\ pc' = "detail"
    /\ UNCHANGED <<impl, total, page, commits>>
    /\ UNCHANGED <<urlVars, rangeVars, filterVars, analysisVars, analyzeVars, statsVars, renderVars, filenameVars, routeVars, enhancedVars, quickVars, controllerVars>>

\* One iteration of: for (const commit of pageCommits) { await getCommitDetails }
\* and, after the last one, page++ and the short-page test.
FetchDetail ==
    /\ pc = "detail"
    /\ \E ok \in BOOLEAN :
        LET sha == pageCommits[idx]
            detailedCommit == GetCommitDetails(impl, sha, ok)
        IN  /\ requests' = Append(requests, Request("detail", sha, ok))
            /\ IF detailedCommit.threw
               THEN /\ pc' = OnCatch(impl)
                    /\ UNCHANGED <<commits, idx, page>>
               ELSE /\ commits' = IF detailedCommit.truthy
                                  THEN PushCommit(commits, detailedCommit.value)
                                  ELSE commits
                    /\ IF idx < Len(pageCommits)
                       THEN /\ idx' = idx + 1
                            /\ UNCHANGED <<pc, page>>
                       ELSE /\ page' = page + 1
                            /\ pc' = IF IsLastPage(pageCommits) THEN "returned" ELSE "list"
                            /\ UNCHANGED idx
    /\ UNCHANGED <<impl, total, pageCommits>>
    /\ UNCHANGED <<urlVars, rangeVars, filterVars, analysisVars, analyzeVars, statsVars, renderVars, filenameVars, routeVars, enhancedVars, quickVars, controllerVars>>

FetchNext == ListPage \/ FetchDetail

(***************************************************************************)
(* extractRepoInfo.  A string is a sequence of tokens: the two prefixes,   *)
(* "/", ".git", " " and a name character; no other token contains the     *)
(* text of another, so String.replace and split act on whole tokens.       *)
(***************************************************************************)
Https == "https://github.com/"
Ssh == "git@github.com:"
Slash == "/"
DotGit == ".git"
Space == " "

UrlAlphabet == {"a", DotGit, Slash, Space}

StringsUpTo(alphabet, n) == UNION {[1..k -> alphabet] : k \in 0..n}

UrlInputs ==
    {prefix \o urlRest : prefix \in {<<>>, <<Https>>, <<Ssh>>},
                      urlRest \in StringsUpTo(UrlAlphabet, MaxUrlLen)}

\* s.startsWith(prefix), for a prefix that is one token
StartsWith(s, prefix) == Len(s) >= 1 /\ s[1] = prefix

RECURSIVE ReplaceFirst(_, _)
\* s.replace(t, ''): a string pattern replaces the first occurrence only
ReplaceFirst(s, t) ==
    IF s = <<>> THEN <<>>
    ELSE IF Head(s) = t THEN Tail(s)
    ELSE <<Head(s)>> \o ReplaceFirst(Tail(s), t)

RECURSIVE TrimStart(_)
TrimStart(s) == IF s # <<>> /\ Head(s) = Space THEN TrimStart(Tail(s)) ELSE s

RECURSIVE TrimEnd(_)
TrimEnd(s) ==
    IF s # <<>> /\ s[Len(s)] = Space THEN TrimEnd(SubSeq(s, 1, Len(s) - 1)) ELSE s

\* s.trim('/'): String.prototype.trim takes no argument and strips whitespace
Trim(s) == TrimEnd(TrimStart(s))

RECURSIVE Split(_)
\* s.split('/'): always at least one part, empty parts kept
Split(s) ==
    IF \A i \in DOMAIN s : s[i] # Slash THEN <<s>>
    ELSE LET i == CHOOSE j \in DOMAIN s : s[j] = Slash /\ \A k \in 1..(j - 1) : s[k] # Slash
         IN  <<SubSeq(s, 1, i - 1)>> \o Split(SubSeq(s, i + 1, Len(s)))

RepoInfo(owner, repo) == [ok |-> TRUE, owner |-> owner, repo |-> repo, error |-> ""]

RepoError(msg) == [ok |-> FALSE, owner |-> <<>>, repo |-> <<>>, error |-> msg]

\* let parts; the two branches of extractRepoInfo that set it
RepoParts(url) ==
    IF StartsWith(url, Https) THEN Split(Trim(ReplaceFirst(url, Https)))
    ELSE Split(ReplaceFirst(ReplaceFirst(url, Ssh), DotGit))

ExtractRepoInfo(url) ==
    IF ~StartsWith(url, Https) /\ ~StartsWith(url, Ssh)
    THEN RepoError("Invalid GitHub repository URL format")
    ELSE LET parts == RepoParts(url)
         IN  IF Len(parts) # 2
             THEN RepoError("Invalid GitHub repository URL. Expected format: owner/repo")
             ELSE RepoInfo(parts[1], ReplaceFirst(parts[2], DotGit))

UrlIdle ==
    /\ repoUrl = <<>>
    /\ repoInfo = RepoError("none")
    /\ upc = "idle"

UrlStart ==
    /\ repoUrl \in UrlInputs
    /\ repoInfo = RepoError("none")
    /\ upc = "call"

ExtractStep ==
    /\ upc = "call"
    /\ repoInfo' = ExtractRepoInfo(repoUrl)
    /\ upc' = "done"
    /\ UNCHANGED repoUrl
    /\ UNCHANGED <<fetchVars, rangeVars, filterVars, analysisVars, analyzeVars, statsVars, renderVars, filenameVars, routeVars, enhancedVars, quickVars, controllerVars>>

(***************************************************************************)
(* The date-range plumbing: ReportController -> CommitController ->        *)
(* GitHubService.  A date string is a record: a YYYY-MM-DD date, as its    *)
(* day number, or a string that is no date.                                *)
(***************************************************************************)
Date(n) == [valid |-> TRUE, day |-> n]

NoDate == [valid |-> FALSE, day |-> 0]

DateInputs == {Date(n) : n \in 1..MaxDay} \cup {NoDate}

\* moment(s, 'YYYY-MM-DD', true).isValid()
IsValidDate(d) == d.valid

\* moment(a).isAfter(moment(b)): false when either side is invalid
IsAfter(a, b) == a.valid /\ b.valid /\ a.day > b.day

\* moment(date).add(1, 'day').format('YYYY-MM-DD')
AddOneDay(d) == IF d.valid THEN Date(d.day + 1) ELSE NoDate

NoWindow == [since |-> NoDate, until |-> NoDate]

\* GitHubService.getCommitsForDateRange: options = {since: fromDate, until: toDate}
RangeOptions(from, to) == [since |-> from, until |-> to]

\* GitHubService.getCommitsForDate: the range from date to the day after
DateOptions(date) == RangeOptions(date, AddOneDay(date))

\* The upstream's history: author instants in hours after day 1, 00:00 UTC;
\* the commit's sha is its position.
UpstreamHistory == <<12, 24, 36, 60, 84>>

\* A date-only since/until is that day's 00:00 UTC.
DayStart(d) == (d.day - 1) * 24

\* The list endpoint's filter: since <= t < until.
UpstreamList(w) ==
    SelectSeq([i \in DOMAIN UpstreamHistory |-> i],
              LAMBDA i : DayStart(w.since) <= UpstreamHistory[i]
                           /\ UpstreamHistory[i] < DayStart(w.until))

ValidatingOps == {"generateQuickReport", "generateEnhancedReport", "generateReportForDate"}

SingleDateOps == {"getCommitsForDate", "generateReportForDate"}

Ops == ValidatingOps \cup {"getReportSummary", "getCommitsForDateRange", "getCommitsForDate"}

RequestUrls == { <<Https, "a", Slash, "a">>, <<Ssh, "a", Slash, "a", DotGit>>, <<"a">>, <<Https, "a">> }

\* RepositoryController.validateRepositoryUrl
ValidateRepositoryUrl(url) == ExtractRepoInfo(url).ok

\* The checks at the head of generateQuickReport / generateEnhancedReport
\* (generateReportForDate passes date, date to them): the error, or "".
ValidationError(url, from, to) ==
    IF ~ValidateRepositoryUrl(url) THEN "Invalid repository URL"
    ELSE IF ~IsValidDate(from) \/ ~IsValidDate(to) THEN "Invalid date format. Use YYYY-MM-DD"
    ELSE IF IsAfter(from, to) THEN "From date cannot be after to date"
    ELSE ""

\* What the method called checks before it calls the CommitController.
EntryError(o, url, from, to) ==
    IF o \in ValidatingOps THEN ValidationError(url, from, to) ELSE ""

\* The options the GitHubService method reached from op hands to getCommits.
OptionsOf(o, from, to) ==
    IF o = "getCommitsForDate" THEN DateOptions(from) ELSE RangeOptions(from, to)

RangeIdle ==
    /\ op = "none"
    /\ reqUrl = <<>>
    /\ fromDate = NoDate
    /\ toDate = NoDate
    /\ rpc = "idle"
    /\ window = NoWindow
    /\ netCalls = 0
    /\ outcome = "pending"
    /\ result = <<>>

RangeStart ==
    /\ op \in Ops
    /\ reqUrl \in RequestUrls
    /\ fromDate \in DateInputs
    /\ toDate \in DateInputs
    /\ op \in SingleDateOps => toDate = fromDate
    /\ rpc = "entry"
    /\ window = NoWindow
    /\ netCalls = 0
    /\ outcome = "pending"
    /\ result = <<>>

\* The called method up to its call of the CommitController.
ControllerEntry ==
    /\ rpc = "entry"
    /\ IF EntryError(op, reqUrl, fromDate, toDate) # ""
       THEN rpc' = "done" /\ outcome' = "error"
       ELSE rpc' = "fetch" /\ UNCHANGED outcome
    /\ UNCHANGED <<op, reqUrl, fromDate, toDate, window, netCalls, result>>
    /\ UNCHANGED <<fetchVars, urlVars, filterVars, analysisVars, analyzeVars, statsVars, renderVars, filenameVars, routeVars, enhancedVars, quickVars, controllerVars>>

\* CommitController.getCommitsForDate / getCommitsForDateRange: extractRepoInfo,
\* then the GitHubService call, whose list request carries the options.
CommitFetch ==
    /\ rpc = "fetch"
    /\ rpc' = "done"
    /\ IF ~ExtractRepoInfo(reqUrl).ok
       THEN /\ outcome' = "error"
            /\ UNCHANGED <<window, netCalls, result>>
       ELSE LET options == OptionsOf(op, fromDate, toDate)
            IN  /\ window' = options
                /\ netCalls' = netCalls + 1
                /\ IF options.since.valid /\ options.until.valid
                   THEN outcome' = "ok" /\ result' = UpstreamList(options)
                   ELSE \* the upstream's answer to a since/until that is no date
                        \/ outcome' = "error" /\ result' = <<>>
                        \/ outcome' = "ok" /\ result' = <<>>
    /\ UNCHANGED <<op, reqUrl, fromDate, toDate>>
    /\ UNCHANGED <<fetchVars, urlVars, filterVars, analysisVars, analyzeVars, statsVars, renderVars, filenameVars, routeVars, enhancedVars, quickVars, controllerVars>>

(***************************************************************************)
(* filterCommitsByDate.  A timestamp is an ISO 8601 string with an offset: *)
(* utc is its instant in hours after day 1, 00:00 UTC, off the offset it   *)
(* is written in.                                                          *)
(***************************************************************************)
Timestamp(utc, off) == [utc |-> utc, off |-> off]

\* 22:00 of day 1 and 02:00 of day 2 (UTC), written at -03:00, Z and +03:00
AuthorTimestamps == {Timestamp(u, o) : u \in {22, 26}, o \in {-3, 0, 3}}

CommitterTimestamps == {Timestamp(22, 0), Timestamp(26, 0)}

FilterCommits == [author : AuthorTimestamps, committer : CommitterTimestamps]

\* the zones the machine may run in
LocalZones == {-3, 0, 3}

\* moment(isoString): the instant; the moment is in local mode, the offset
\* the string was written in is not kept
ParseMoment(ts) == ts.utc

\* m.format('YYYY-MM-DD') of a local-mode moment: the calendar day, as a day
\* number, of the instant on the machine's clock
FormatLocalDate(instant, tz) == ((instant + tz) \div 24) + 1

\* commits.filter(commit => moment(commit.author.date).format('YYYY-MM-DD') === targetDate)
FilterCommitsByDate(cs, target, tz) ==
    SelectSeq(cs, LAMBDA c : FormatLocalDate(ParseMoment(c.author), tz) = target)

FilterIdle ==
    /\ tzLocal = 0
    /\ fCommits = <<>>
    /\ targetDate = 0
    /\ filtered = <<>>
    /\ fpc = "idle"

FilterStart ==
    /\ tzLocal \in LocalZones
    /\ fCommits \in StringsUpTo(FilterCommits, MaxFilterLen)
    /\ targetDate \in 1..2
    /\ filtered = <<>>
    /\ fpc = "call"

FilterStep ==
    /\ fpc = "call"
    /\ filtered' = FilterCommitsByDate(fCommits, targetDate, tzLocal)
    /\ fpc' = "done"
    /\ UNCHANGED <<tzLocal, fCommits, targetDate>>
    /\ UNCHANGED <<fetchVars, urlVars, rangeVars, analysisVars, analyzeVars, statsVars, renderVars, filenameVars, routeVars, enhancedVars, quickVars, controllerVars>>

(***************************************************************************)
(* generateBasicAnalysis (AIAnalysisService, ReportService and the         *)
(* Enhanced reporter hold the same text).  A string is its sequence of     *)
(* characters.                                                             *)
(***************************************************************************)
\* "src/auth/login.js"
F_login == <<"s", "r", "c", "/", "a", "u", "t", "h", "/", "l", "o", "g", "i", "n", ".", "j", "s">>

\* "src/api/users.py"
F_users == <<"s", "r", "c", "/", "a", "p", "i", "/", "u", "s", "e", "r", "s", ".", "p", "y">>

\* "src/components/Button.jsx"
F_button == <<"s", "r", "c", "/", "c", "o", "m", "p", "o", "n", "e", "n", "t", "s", "/", "B", "u", "t", "t", "o", "n", ".", "j", "s", "x">>

\* "styles/main.css"
F_css == <<"s", "t", "y", "l", "e", "s", "/", "m", "a", "i", "n", ".", "c", "s", "s">>

\* "tests/test_auth.js"
F_test == <<"t", "e", "s", "t", "s", "/", "t", "e", "s", "t", "_", "a", "u", "t", "h", ".", "j", "s">>

\* "README.md"
F_readme == <<"R", "E", "A", "D", "M", "E", ".", "m", "d">>

\* ".env.example"
F_env == <<".", "e", "n", "v", ".", "e", "x", "a", "m", "p", "l", "e">>

\* "package.json"
F_package == <<"p", "a", "c", "k", "a", "g", "e", ".", "j", "s", "o", "n">>

\* "docs/notes.txt"
F_notes == <<"d", "o", "c", "s", "/", "n", "o", "t", "e", "s", ".", "t", "x", "t">>

\* "index.html"
F_html == <<"i", "n", "d", "e", "x", ".", "h", "t", "m", "l">>

\* "App.vue"
F_vue == <<"A", "p", "p", ".", "v", "u", "e">>

FileNames == {F_login, F_users, F_button, F_css, F_test, F_readme, F_env, F_package, F_notes, F_html, F_vue}

\* "add auth"
M_auth == <<"a", "d", "d", " ", "a", "u", "t", "h">>

\* "Update API docs"
M_api == <<"U", "p", "d", "a", "t", "e", " ", "A", "P", "I", " ", "d", "o", "c", "s">>

\* "fix typo"
M_typo == <<"f", "i", "x", " ", "t", "y", "p", "o">>

\* "Add tests for UI"
M_tests == <<"A", "d", "d", " ", "t", "e", "s", "t", "s", " ", "f", "o", "r", " ", "U", "I">>

Messages == {M_auth, M_api, M_typo, M_tests}

K_auth == <<"a", "u", "t", "h">>

K_api == <<"a", "p", "i">>

K_ui == <<"u", "i">>

K_css == <<"c", "s", "s">>

K_jsx == <<"j", "s", "x">>

K_test == <<"t", "e", "s", "t">>

K_readme == <<"r", "e", "a", "d", "m", "e">>

K_env == <<"e", "n", "v">>

K_package == <<"p", "a", "c", "k", "a", "g", "e">>

BackendExtensions == {<<".", "j", "s">>, <<".", "p", "y">>, <<".", "j", "a", "v", "a">>, <<".", "p", "h", "p">>}

FrontendExtensions == {<<".", "j", "s", "x">>, <<".", "t", "s", "x">>, <<".", "v", "u", "e">>, <<".", "h", "t", "m", "l">>, <<".", "c", "s", "s">>}

UpperCase == <<"A", "B", "C", "D", "E", "F", "G", "H", "I", "J", "K", "L", "M", "N", "O", "P", "Q", "R", "S", "T", "U", "V", "W", "X", "Y", "Z">>

LowerCase == <<"a", "b", "c", "d", "e", "f", "g", "h", "i", "j", "k", "l", "m", "n", "o", "p", "q", "r", "s", "t", "u", "v", "w", "x", "y", "z">>

\* s.toLowerCase()
ToLowerCase(str) ==
    [i \in DOMAIN str |->
        IF \E k \in DOMAIN UpperCase : UpperCase[k] = str[i]
        THEN LowerCase[CHOOSE k \in DOMAIN UpperCase : UpperCase[k] = str[i]]
        ELSE str[i]]

\* s.includes(sub)
Includes(str, sub) ==
    \E i \in 0..(Len(str) - Len(sub)) : \A j \in DOMAIN sub : str[i + j] = sub[j]

\* files.some(f => f.filename.toLowerCase().includes(k))
SomeFileIncludes(files, k) ==
    \E i \in DOMAIN files : Includes(ToLowerCase(files[i]), k)

\* commitMessage.includes(k), commitMessage = commit.message.toLowerCase()
MessageIncludes(message, k) == Includes(ToLowerCase(message), k)

Topics == <<"auth", "api", "ui", "test", "readme", "env", "package">>

\* The condition of the topic's if statement.
TopicMatches(t, commit) ==
    CASE t = "auth" -> SomeFileIncludes(commit.files, K_auth) \/ MessageIncludes(commit.message, K_auth)
      [] t = "api" -> SomeFileIncludes(commit.files, K_api) \/ MessageIncludes(commit.message, K_api)
      [] t = "ui" -> \/ SomeFileIncludes(commit.files, K_ui)
                     \/ SomeFileIncludes(commit.files, K_css)
                     \/ SomeFileIncludes(commit.files, K_jsx)
      [] t = "test" -> SomeFileIncludes(commit.files, K_test)
      [] t = "readme" -> SomeFileIncludes(commit.files, K_readme)
      [] t = "env" -> SomeFileIncludes(commit.files, K_env)
      [] t = "package" -> SomeFileIncludes(commit.files, K_package)

\* The lines the topic's if statement pushes.
TopicBlock(t) ==
    CASE t = "auth" -> << "* Authentication/Authorization changes",
                          "  - Implemented or modified user authentication system",
                          "  - Updated security protocols or access controls" >>
      [] t = "api" -> << "* API integration or endpoint changes",
                         "  - Added new API endpoints or modified existing ones",
                         "  - Integrated external services or third-party APIs",
                         "  - Updated API configuration or connection settings" >>
      [] t = "ui" -> << "* UI/UX design updates",
                        "  - Modified user interface components and layouts",
                        "  - Updated styling, themes, or visual elements",
                        "  - Improved user experience and interface responsiveness" >>
      [] t = "test" -> << "* Testing improvements",
                          "  - Added or updated test cases and test coverage",
                          "  - Implemented automated testing or quality assurance" >>
      [] t = "readme" -> << "* Documentation updates",
                            "  - Updated project documentation and guides",
                            "  - Improved code comments or technical documentation" >>
      [] t = "env" -> << "* Environment configuration changes",
                         "  - Updated environment variables and configuration settings",
                         "  - Modified deployment or development environment setup" >>
      [] t = "package" -> << "* Dependency updates",
                             "  - Updated project dependencies and libraries",
                             "  - Added new packages or updated existing ones" >>

FullStackBlock ==
    << "* Full-stack development changes",
       "  - Worked on both frontend and backend components",
       "  - Implemented end-to-end features or functionality" >>

BackendBlock ==
    << "* Backend functionality updates",
       "  - Modified server-side logic and business rules",
       "  - Updated database operations or data processing" >>

FrontendBlock ==
    << "* Frontend development changes",
       "  - Updated client-side components and user interface",
       "  - Modified user interactions and frontend logic" >>

GeneralBlock ==
    << "* General code changes and improvements",
       "  - Made general code improvements and optimizations",
       "  - Updated existing functionality or fixed issues" >>

\* files.filter(f => exts.some(ext => f.filename.toLowerCase().includes(ext)))
FilesWithExtension(files, exts) ==
    SelectSeq(files, LAMBDA f : \E ext \in exts : Includes(ToLowerCase(f), ext))

\* An else-if chain in place of the independent ifs: only the first match.
TopicStepFirstMatch(analysis, matched, block) ==
    IF matched /\ analysis = <<>> THEN block ELSE analysis

\* if (<condition>) { analysis.push(...block) }
TopicStep(analysis, matched, block) ==
    IF matched THEN analysis \o block ELSE analysis

RECURSIVE TopicPass(_, _)
\* The seven topic ifs, in source order: the analysis after the first n.
TopicPass(n, commit) ==
    IF n = 0 THEN <<>>
    ELSE TopicStep(TopicPass(n - 1, commit), TopicMatches(Topics[n], commit), TopicBlock(Topics[n]))

\* Three independent ifs in place of the if / else if chain.
StackStepIndependent(analysis, commit) ==
    LET backendFiles == FilesWithExtension(commit.files, BackendExtensions)
        frontendFiles == FilesWithExtension(commit.files, FrontendExtensions)
        a1 == IF Len(backendFiles) > 0 /\ Len(frontendFiles) > 0 THEN analysis \o FullStackBlock ELSE analysis
        a2 == IF Len(backendFiles) > 0 THEN a1 \o BackendBlock ELSE a1
    IN  IF Len(frontendFiles) > 0 THEN a2 \o FrontendBlock ELSE a2

\* The if / else if / else if on backendFiles and frontendFiles.
StackStep(analysis, commit) ==
    LET backendFiles == FilesWithExtension(commit.files, BackendExtensions)
        frontendFiles == FilesWithExtension(commit.files, FrontendExtensions)
    IN  IF Len(backendFiles) > 0 /\ Len(frontendFiles) > 0 THEN analysis \o FullStackBlock
        ELSE IF Len(backendFiles) > 0 THEN analysis \o BackendBlock
        ELSE IF Len(frontendFiles) > 0 THEN analysis \o FrontendBlock
        ELSE analysis

\* if (analysis.length === 0) { the general block }
FallbackStep(analysis) == IF Len(analysis) = 0 THEN GeneralBlock ELSE analysis

\* The lines of the text returned: analysis.join('\n') puts one on each line.
GenerateBasicAnalysis(commit) ==
    FallbackStep(StackStep(TopicPass(Len(Topics), commit), commit))

AnalysisIdle ==
    /\ aCommit = [message |-> <<>>, files |-> <<>>]
    /\ analysisLines = <<>>
    /\ apc = "idle"

AnalysisStart ==
    /\ aCommit \in [message : Messages, files : StringsUpTo(FileNames, MaxFiles)]
    /\ analysisLines = <<>>
    /\ apc = "call"

\* The commit handed to analyzeCommit; generateBasicAnalysis is not called
\* on its own.
AnalysisArgument ==
    /\ aCommit \in [message : Messages, files : StringsUpTo(FileNames, 1)]
    /\ analysisLines = <<>>
    /\ apc = "idle"

AnalysisStep ==
    /\ apc = "call"
    /\ analysisLines' = GenerateBasicAnalysis(aCommit)
    /\ apc' = "done"
    /\ UNCHANGED aCommit
    /\ UNCHANGED <<fetchVars, urlVars, rangeVars, filterVars, analyzeVars, statsVars, renderVars, filenameVars, routeVars, enhancedVars, quickVars, controllerVars>>

(***************************************************************************)
(* analyzeCommit (AIAnalysisService) / analyzeCommitWithAI (Enhanced).     *)
(***************************************************************************)
\* The texts the analyzer may answer with, blanks around them included.
AnalyzerTexts ==
    { <<"* Added login">>, <<Space, "* Added login", Space>>, <<"* Refactored", "* Fixed bug">> }

\* What openai.chat.completions.create may do: reject (an API error, or the
\* client's timeout), or resolve with a response of some shape.
AnalyzerReplies ==
    [kind : {"throws", "timeout"}, shape : {"none"}, content : {<<>>}]
      \cup [kind : {"response"},
            shape : {"noChoices", "emptyChoices", "noMessage", "nullContent", "numberContent"},
            content : {<<>>}]
      \cup [kind : {"response"}, shape : {"text"}, content : AnalyzerTexts]

\* await of the create call: a rejection is thrown at the await.
AwaitThrows(reply) == reply.kind \in {"throws", "timeout"}

\* response.choices[0].message.content.trim(): a TypeError when a link of the
\* chain is undefined or null, or when content has no trim method.
ReadContent(response) ==
    IF response.shape = "text"
    THEN [threw |-> FALSE, value |-> Trim(response.content)]
    ELSE [threw |-> TRUE, value |-> <<>>]

Returned(text) == [raised |-> FALSE, text |-> text]

Raised == [raised |-> TRUE, text |-> <<>>]

NotReturned == [raised |-> FALSE, text |-> <<"pending">>]

\* A catch block that rethrows in place of falling back.
AnalyzeCatchRethrow(commit) == Raised

\* catch (error) { console.error(...); return this.generateBasicAnalysis(commit); }
AnalyzeCatch(commit) == Returned(GenerateBasicAnalysis(commit))

AnalyzeIdle ==
    /\ hasKey = FALSE
    /\ aiReply = [kind |-> "none", shape |-> "none", content |-> <<>>]
    /\ aiResult = NotReturned
    /\ zpc = "idle"

AnalyzeStart ==
    /\ hasKey \in BOOLEAN
    /\ aiReply = [kind |-> "none", shape |-> "none", content |-> <<>>]
    /\ aiResult = NotReturned
    /\ zpc = "call"

\* analyzeCommit up to the external call: without this.openai the heuristic
\* text is returned at once.
AnalyzeEntry ==
    /\ zpc = "call"
    /\ IF ~hasKey
       THEN /\ aiResult' = Returned(GenerateBasicAnalysis(aCommit))
            /\ zpc' = "done"
       ELSE /\ aiResult' = aiResult
            /\ zpc' = "external"
    /\ UNCHANGED <<hasKey, aiReply>>
    /\ UNCHANGED <<fetchVars, urlVars, rangeVars, filterVars, analysisVars, statsVars, renderVars, filenameVars, routeVars, enhancedVars, quickVars, controllerVars>>

\* The external call answers, and the rest of the try block runs.
AnalyzeExternal ==
    /\ zpc = "external"
    /\ \E reply \in AnalyzerReplies :
          /\ aiReply' = reply
          /\ aiResult' = IF AwaitThrows(reply) THEN AnalyzeCatch(aCommit)
                         ELSE IF ReadContent(reply).threw THEN AnalyzeCatch(aCommit)
                         ELSE Returned(ReadContent(reply).value)
    /\ zpc' = "done"
    /\ UNCHANGED hasKey
    /\ UNCHANGED <<fetchVars, urlVars, rangeVars, filterVars, analysisVars, statsVars, renderVars, filenameVars, routeVars, enhancedVars, quickVars, controllerVars>>

(***************************************************************************)
(* getCommitStatistics (CommitController), getReportStatistics             *)
(* (ReportService).                                                        *)
(***************************************************************************)
\* .slice(0, 5) of the contributors
TopContributorsLimit == 5

\* .slice(0, 10) of the file statistics
FileStatisticsLimit == 10

\* An entry of commit.files as getCommitDetails builds it.
File(filename, status, additions, deletions) ==
    [filename |-> filename, status |-> status,
     additions |-> additions, deletions |-> deletions, changes |-> additions + deletions]

\* A detailed commit as getCommitDetails builds it; the message is a string
\* as a sequence of tokens, blanks included.
DetailedCommit(message, name, date, files, additions, deletions) ==
    [message |-> message,
     author |-> [name |-> name, email |-> name, date |-> date],
     files |-> files,
     stats |-> [additions |-> additions, deletions |-> deletions]]

\* " fix "
M_padded == <<" ", "f", "i", "x", " ">>

\* "1", a root-level file
F_one == <<"1">>

\* "alice"
A_alice == <<"a", "l", "i", "c", "e">>

\* "bob"
A_bob == <<"b", "o", "b">>

\* "7"
A_seven == <<"7">>

\* The commits the sequences are drawn from. Two authors, and a third whose
\* name is a canonical array index, as is the name of one root-level file.
CommitCatalogue ==
    { DetailedCommit(M_padded, A_alice, Timestamp(22, 0),
                     <<File(F_login, "modified", 2, 1)>>, 2, 1),
      DetailedCommit(M_tests, A_bob, Timestamp(26, 3),
                     <<File(F_css, "added", 3, 0), File(F_login, "modified", 1, 0)>>, 4, 0),
      DetailedCommit(M_typo, A_seven, Timestamp(22, -3),
                     <<File(F_one, "modified", 1, 2)>>, 1, 2),
      DetailedCommit(M_api, A_alice, Timestamp(26, 0), <<>>, 0, 0),
      DetailedCommit(M_auth, A_bob, Timestamp(22, 3),
                     <<File(F_css, "removed", 0, 5), File(F_notes, "copied", 0, 0)>>, 0, 5) }

Digits == <<"0", "1", "2", "3", "4", "5", "6", "7", "8", "9">>

\* "dev1", "dev2", ...
WideAuthor(i) == <<"d", "e", "v", Digits[i + 1]>>

\* "fa", "fb", ...
WideFile(i) == <<"f", LowerCase[i]>>

\* n commits, the i-th by the i-th author, changing two files no other does.
WideCommits(n) ==
    [i \in 1..n |->
        DetailedCommit(M_typo, WideAuthor(i), Timestamp(22, 0),
                       <<File(WideFile(2 * i - 1), "added", i, 0),
                         File(WideFile(2 * i), "modified", 1, 1)>>, i + 1, 1)]

CommitSequences ==
    StringsUpTo(CommitCatalogue, MaxStatCommits)
      \cup {WideCommits(n) : n \in 0..Min(MaxWideCommits, 9)}

RECURSIVE Sum(_)
\* numbers.reduce((sum, x) => sum + x, 0)
Sum(numbers) ==
    IF numbers = <<>> THEN 0 ELSE Sum(SubSeq(numbers, 1, Len(numbers) - 1)) + numbers[Len(numbers)]

\* Math.round(x / n) for x >= 0, n > 0: halves round up.
RoundDiv(x, n) == (2 * x + n) \div (2 * n)

\* The position of the character among the decimal digits, -1 for others.
DigitValue(ch) ==
    IF \E d \in DOMAIN Digits : Digits[d] = ch
    THEN (CHOOSE d \in DOMAIN Digits : Digits[d] = ch) - 1
    ELSE -1

RECURSIVE Decimal(_)
\* The number a string of digits denotes.
Decimal(key) ==
    IF key = <<>> THEN 0
    ELSE 10 * Decimal(SubSeq(key, 1, Len(key) - 1)) + DigitValue(key[Len(key)])

\* The value of a property key that is a canonical array index ("0", "1",
\* "7", "42": digits only, no leading zero), -1 for any other key.
ArrayIndex(key) ==
    IF /\ key # <<>>
       /\ \A i \in DOMAIN key : DigitValue(key[i]) >= 0
       /\ (Len(key) = 1 \/ key[1] # "0")
    THEN Decimal(key)
    ELSE -1

RECURSIVE SortDescending(_)
\* Array.prototype.sort((a, b) => weight(b) - weight(a)) over <<weight, value>>
\* pairs: descending by weight, stable.
SortDescending(pairs) ==
    IF pairs = <<>> THEN <<>>
    ELSE LET rest == SortDescending(SubSeq(pairs, 1, Len(pairs) - 1))
             x == pairs[Len(pairs)]
             k == Cardinality({i \in DOMAIN rest : rest[i][1] >= x[1]})
         IN  SubSeq(rest, 1, k) \o <<x>> \o SubSeq(rest, k + 1, Len(rest))

\* The values of sorted pairs.
Values(pairs) == [i \in DOMAIN pairs |-> pairs[i][2]]

\* Object.values(obj) of an object given as its <<key, value>> entries in the
\* order the keys were created: the array-index keys first, ascending, then
\* the other keys in creation order.
ObjectValues(entries) ==
    LET indexed == SelectSeq(entries, LAMBDA e : ArrayIndex(e[1]) >= 0)
        named == SelectSeq(entries, LAMBDA e : ArrayIndex(e[1]) < 0)
    IN  Values(SortDescending([i \in DOMAIN indexed |->
                                  <<0 - ArrayIndex(indexed[i][1]), indexed[i]>>]))
          \o named

\* array.slice(0, n)
Slice(array, n) == SubSeq(array, 1, Min(n, Len(array)))

\* The body of commits.forEach over the contributors object.
AddContribution(contributors, commit) ==
    LET author == commit.author.name
        created ==
            IF \E i \in DOMAIN contributors : contributors[i][1] = author THEN contributors
            ELSE Append(contributors,
                        <<author, [name |-> author, email |-> commit.author.email,
                                   commits |-> 0, additions |-> 0, deletions |-> 0]>>)
    IN  [i \in DOMAIN created |->
            IF created[i][1] = author
            THEN <<author, [created[i][2] EXCEPT !.commits = @ + 1,
                                                 !.additions = @ + commit.stats.additions,
                                                 !.deletions = @ + commit.stats.deletions]>>
            ELSE created[i]]

RECURSIVE Contributors(_)
Contributors(cs) ==
    IF cs = <<>> THEN <<>>
    ELSE AddContribution(Contributors(SubSeq(cs, 1, Len(cs) - 1)), cs[Len(cs)])

\* The body of commit.files.forEach over the fileStats object.
AddFile(fileStats, file) ==
    LET created ==
            IF \E i \in DOMAIN fileStats : fileStats[i][1] = file.filename THEN fileStats
            ELSE Append(fileStats,
                        <<file.filename, [filename |-> file.filename, changes |-> 0,
                                          additions |-> 0, deletions |-> 0, commits |-> 0]>>)
    IN  [i \in DOMAIN created |->
            IF created[i][1] = file.filename
            THEN <<file.filename, [created[i][2] EXCEPT !.changes = @ + file.changes,
                                                        !.additions = @ + file.additions,
                                                        !.deletions = @ + file.deletions,
                                                        !.commits = @ + 1]>>
            ELSE created[i]]

RECURSIVE AddFiles(_, _)
AddFiles(fileStats, files) ==
    IF files = <<>> THEN fileStats
    ELSE AddFile(AddFiles(fileStats, SubSeq(files, 1, Len(files) - 1)), files[Len(files)])

RECURSIVE FileStats(_)
FileStats(cs) ==
    IF cs = <<>> THEN <<>>
    ELSE AddFiles(FileStats(SubSeq(cs, 1, Len(cs) - 1)), cs[Len(cs)].files)

\* Object.values(contributors).sort((a, b) => b.commits - a.commits)
RankedContributors(cs) ==
    LET values == Values(ObjectValues(Contributors(cs)))
    IN  Values(SortDescending([i \in DOMAIN values |-> <<values[i].commits, values[i]>>]))

\* Object.values(fileStats).sort((a, b) => b.changes - a.changes)
RankedFiles(cs) ==
    LET values == Values(ObjectValues(FileStats(cs)))
    IN  Values(SortDescending([i \in DOMAIN values |-> <<values[i].changes, values[i]>>]))

\* The sum in place of the difference.
NetChangesAsTotal(totalAdditions, totalDeletions) == totalAdditions + totalDeletions

\* const netChanges = totalAdditions - totalDeletions
NetChanges(totalAdditions, totalDeletions) == totalAdditions - totalDeletions

\* The five totals both functions compute.
Totals(cs) ==
    LET totalAdditions == Sum([i \in DOMAIN cs |-> cs[i].stats.additions])
        totalDeletions == Sum([i \in DOMAIN cs |-> cs[i].stats.deletions])
    IN  [totalCommits |-> Len(cs),
         totalAdditions |-> totalAdditions,
         totalDeletions |-> totalDeletions,
         netChanges |-> NetChanges(totalAdditions, totalDeletions),
         averageChangesPerCommit |-> RoundDiv(totalAdditions + totalDeletions, Len(cs))]

ZeroTotals ==
    [totalCommits |-> 0, totalAdditions |-> 0, totalDeletions |-> 0,
     netChanges |-> 0, averageChangesPerCommit |-> 0]

\* CommitController.getCommitStatistics
GetCommitStatistics(cs) ==
    IF Len(cs) = 0
    THEN [totalCommits |-> 0, totalAdditions |-> 0, totalDeletions |-> 0,
          netChanges |-> 0, averageChangesPerCommit |-> 0,
          topContributors |-> <<>>, fileStatistics |-> <<>>]
    ELSE LET totals == Totals(cs)
         IN  [totalCommits |-> totals.totalCommits,
              totalAdditions |-> totals.totalAdditions,
              totalDeletions |-> totals.totalDeletions,
              netChanges |-> totals.netChanges,
              averageChangesPerCommit |-> totals.averageChangesPerCommit,
              topContributors |-> Slice(RankedContributors(cs), TopContributorsLimit),
              fileStatistics |-> Slice(RankedFiles(cs), FileStatisticsLimit)]

\* ReportService.getReportStatistics
GetReportStatistics(cs) == IF Len(cs) = 0 THEN ZeroTotals ELSE Totals(cs)

StatisticsFunctions == {"getCommitStatistics", "getReportStatistics"}

NoStatistics == [totalCommits |-> -1]

StatsIdle ==
    /\ sCommits = <<>>
    /\ sImpl = "none"
    /\ statistics = NoStatistics
    /\ spc = "idle"

StatsStart ==
    /\ sCommits \in CommitSequences
    /\ sImpl \in StatisticsFunctions
    /\ statistics = NoStatistics
    /\ spc = "call"

ComputeStatistics ==
    /\ spc = "call"
    /\ statistics' = IF sImpl = "getCommitStatistics"
                     THEN GetCommitStatistics(sCommits)
                     ELSE GetReportStatistics(sCommits)
    /\ spc' = "done"
    /\ UNCHANGED <<sCommits, sImpl>>
    /\ UNCHANGED <<fetchVars, urlVars, rangeVars, filterVars, analysisVars, analyzeVars, renderVars, filenameVars, routeVars, enhancedVars, quickVars, controllerVars>>

(***************************************************************************)
(* generateQuickReport / generateEnhancedReport (ReportService).           *)
(***************************************************************************)
\* The values of --format that reach the report functions from the CLI.
Formats == {"text", "markdown", "json"}

ReportTypes == {"quick", "enhanced"}

\* The dateRange argument.
ReportDateRange == "2025-01-15"

\* One line of the report text: what the line is, its decoration (heading
\* and bold markers, indentation, rule characters) and the values printed.
Line(kind, deco, number, text, label, values) ==
    [kind |-> kind, deco |-> deco, number |-> number,
     text |-> text, label |-> label, values |-> values]

\* An empty line.
Blank == Line("blank", "", 0, <<>>, "", <<>>)

\* moment(date).format('HH:mm:ss'): the hour of the instant in the machine's
\* zone.
FormatLocalTime(instant, tz) == (instant + tz) % 24

\* Commit.getFormattedDate
GetFormattedDate(commit, tz) == FormatLocalTime(ParseMoment(commit.author.date), tz)

\* statusMap[status] || '[CHANGED]'
GetStatusEmoji(status) ==
    CASE status = "added" -> "[ADDED]"
      [] status = "modified" -> "[MODIFIED]"
      [] status = "removed" -> "[REMOVED]"
      [] status = "renamed" -> "[RENAMED]"
      [] OTHER -> "[CHANGED]"

\* 'Hey, on ${dateRange} you did these changes:\n\n'
HeaderLines(dateRange, format) ==
    IF format = "markdown"
    THEN <<Line("header", "# ", 0, <<>>, dateRange, <<>>), Blank>>
    ELSE <<Line("header", "", 0, <<>>, dateRange, <<>>), Blank>>

\* 'Commit ${i + 1}: ${message}', author and time, +additions -deletions
CommitHeadLines(commit, n, format, tz) ==
    IF format = "markdown"
    THEN << Line("commit", "## ", n, Trim(commit.message), "", <<>>), Blank,
            Line("author", "**", 0, commit.author.name, "", <<GetFormattedDate(commit, tz)>>), Blank,
            Line("changes", "**", 0, <<>>, "", <<commit.stats.additions, commit.stats.deletions>>), Blank >>
    ELSE << Line("commit", "", n, Trim(commit.message), "", <<>>),
            Line("author", "", 0, commit.author.name, "", <<GetFormattedDate(commit, tz)>>),
            Line("changes", "", 0, <<>>, "", <<commit.stats.additions, commit.stats.deletions>>) >>

\* The commit as generateBasicAnalysis reads it: message and file names.
AnalysisCommit(commit) ==
    [message |-> commit.message,
     files |-> [j \in DOMAIN commit.files |-> commit.files[j].filename]]

\* "What you accomplished:" and the analysis (no aiAnalyzer is passed: the
\* heuristic text).
AnalysisLines(commit, format) ==
    LET analysis == GenerateBasicAnalysis(AnalysisCommit(commit))
        analysisBody == [k \in DOMAIN analysis |-> Line("analysis", "", 0, <<>>, analysis[k], <<>>)]
    IN  IF format = "markdown"
        THEN <<Line("analysisHeader", "**", 0, <<>>, "", <<>>)>> \o analysisBody \o <<Blank>>
        ELSE <<Line("analysisHeader", "", 0, <<>>, "", <<>>)>> \o analysisBody

\* The markdown branch listing the files in the reverse of their order.
FileLinesMarkdownReversed(files, format) ==
    [j \in DOMAIN files |->
        IF format = "markdown"
        THEN Line("file", "- ", 0, files[Len(files) + 1 - j].filename,
                  GetStatusEmoji(files[Len(files) + 1 - j].status),
                  <<files[Len(files) + 1 - j].changes>>)
        ELSE Line("file", "  ", 0, files[j].filename, GetStatusEmoji(files[j].status),
                  <<files[j].changes>>)]

\* for (const file of commit.files) { ... }
FileLines(files, format) ==
    [j \in DOMAIN files |->
        IF format = "markdown"
        THEN Line("file", "- ", 0, files[j].filename, GetStatusEmoji(files[j].status),
                  <<files[j].changes>>)
        ELSE Line("file", "  ", 0, files[j].filename, GetStatusEmoji(files[j].status),
                  <<files[j].changes>>)]

\* "Changed Files:" and one line per file, when the commit has files.
ChangedFilesLines(commit, format) ==
    IF Len(commit.files) > 0
    THEN <<Line("filesHeader", IF format = "markdown" THEN "**" ELSE "", 0, <<>>, "", <<>>)>>
           \o FileLines(commit.files, format) \o <<Blank>>
    ELSE <<>>

\* '-'.repeat(50) for text, '---' for every other format
SeparatorLines(format) ==
    IF format = "text"
    THEN <<Line("separator", "--------------------------------------------------", 0, <<>>, "", <<>>), Blank>>
    ELSE <<Line("separator", "---", 0, <<>>, "", <<>>), Blank>>

\* One pass of the for loop over commits.
CommitLines(commit, n, format, type, tz) ==
    CommitHeadLines(commit, n, format, tz)
      \o (IF type = "enhanced" THEN AnalysisLines(commit, format) ELSE <<>>)
      \o ChangedFilesLines(commit, format)
      \o SeparatorLines(format)

RECURSIVE RenderCommits(_, _, _, _, _)
\* The lines of the first n commits.
RenderCommits(cs, n, format, type, tz) ==
    IF n = 0 THEN <<>>
    ELSE RenderCommits(cs, n - 1, format, type, tz) \o CommitLines(cs[n], n, format, type, tz)

\* 'No commits found for ${dateRange}'
NoCommitsLines(dateRange) == <<Line("noCommits", "", 0, <<>>, dateRange, <<>>)>>

\* ReportService.generateQuickReport / generateEnhancedReport
GenerateReport(cs, dateRange, format, type, tz) ==
    IF Len(cs) = 0 THEN NoCommitsLines(dateRange)
    ELSE HeaderLines(dateRange, format) \o RenderCommits(cs, Len(cs), format, type, tz)

RenderIdle ==
    /\ rType = "none"
    /\ rZone = 0
    /\ reports = [f \in Formats |-> <<>>]
    /\ rendered = {}

RenderStart ==
    /\ rType \in ReportTypes
    /\ rZone \in {-3, 3}
    /\ reports = [f \in Formats |-> <<>>]
    /\ rendered = {}

\* ReportController asks reportService for the report in one format.
RenderReport ==
    \E format \in Formats \ rendered :
        /\ reports' = [reports EXCEPT
                          ![format] = GenerateReport(sCommits, ReportDateRange, format, rType, rZone)]
        /\ rendered' = rendered \cup {format}
        /\ UNCHANGED <<rType, rZone>>
        /\ UNCHANGED <<fetchVars, urlVars, rangeVars, filterVars, analysisVars, analyzeVars, statsVars, filenameVars, routeVars, enhancedVars, quickVars, controllerVars>>

(***************************************************************************)
(* generateFilename (ReportService, ReportView).                           *)
(***************************************************************************)
\* The values of --format.
FilenameFormats == {"text", "markdown", "html", "json"}

FilenameClasses == {"ReportService", "ReportView"}

\* moment().format('YYYY-MM-DD-HH-mm-ss'): the time to the second.
SecondStamp(t) == [day |-> t \div (2 * 86400), second |-> (t \div 2) % 86400]

\* new Date().toISOString().split('T')[0]: the date only.
DayStamp(t) == [day |-> t \div (2 * 86400), second |-> 0]

\* ReportView.getFileExtension
GetFileExtension(format) ==
    CASE format = "text" -> "txt"
      [] format = "markdown" -> "md"
      [] format = "html" -> "html"
      [] format = "json" -> "json"
      [] OTHER -> "txt"

\* format === 'markdown' ? 'md' : 'txt'
ServiceExtension(format) == IF format = "markdown" THEN "md" ELSE "txt"

\* '${reportType}-report-${dateRange}-${timestamp}.${extension}'
Filename(reportType, dateRange, timestamp, extension) ==
    [reportType |-> reportType, dateRange |-> dateRange,
     timestamp |-> timestamp, extension |-> extension]

\* generateFilename of either class, called at time t.
GenerateFilename(class, reportType, dateRange, format, t) ==
    IF class = "ReportService"
    THEN Filename(reportType, dateRange, SecondStamp(t), ServiceExtension(format))
    ELSE Filename(reportType, dateRange, DayStamp(t), GetFileExtension(format))

FilenameIdle ==
    /\ clock = 0
    /\ synth = <<>>

FilenameStart ==
    /\ clock = 0
    /\ synth = <<>>

\* Half a second passes.
Tick ==
    /\ clock < MaxTick
    /\ clock' = clock + 1
    /\ UNCHANGED synth
    /\ UNCHANGED <<fetchVars, urlVars, rangeVars, filterVars, analysisVars, analyzeVars, statsVars, renderVars, routeVars, enhancedVars, quickVars, controllerVars>>

\* A filename is synthesized for a report.
SynthesizeFilename ==
    /\ Len(synth) < MaxSyntheses
    /\ \E class \in FilenameClasses, reportType \in ReportTypes, format \in FilenameFormats :
          synth' = Append(synth,
                          [at |-> clock, class |-> class, reportType |-> reportType,
                           format |-> format,
                           name |-> GenerateFilename(class, reportType, ReportDateRange, format, clock)])
    /\ UNCHANGED clock
    /\ UNCHANGED <<fetchVars, urlVars, rangeVars, filterVars, analysisVars, analyzeVars, statsVars, renderVars, routeVars, enhancedVars, quickVars, controllerVars>>

(***************************************************************************)
(* The API routes POST /generate-report and                                *)
(* POST /generate-selected-commits-report.  A field of the body that is    *)
(* not in body.given is undefined.                                         *)
(***************************************************************************)
Routes == {"generate-report", "generate-selected-commits-report"}

\* The methods class ReportController defines.
ReportControllerMethods ==
    {"generateQuickReport", "generateEnhancedReport", "filterCommitsByAuthor",
     "saveReport", "createReport", "getReportStatistics", "generateFilename",
     "getReportSummary", "generateReportForDate", "generateMultipleReports"}

ReportBodies ==
    [given : SUBSET {"repoUrl", "fromDate", "toDate"},
     repoUrl : {<<Https, "a", Slash, "a">>, <<"a">>, <<>>},
     fromDate : {Date(1), Date(2), NoDate},
     toDate : {Date(1), NoDate},
     reportType : ReportTypes,
     commits : {<<>>},
     isArray : {FALSE}]

SelectedBodies ==
    [given : SUBSET {"commits", "reportType", "outputFormat", "openaiKey"},
     repoUrl : {<<>>},
     fromDate : {NoDate},
     toDate : {NoDate},
     reportType : ReportTypes,
     commits : {<<>>, <<1>>, <<2, 1>>},
     isArray : BOOLEAN]

\* !field: the field is undefined (an empty string is falsy as well)
Missing(b, field) == field \notin b.given

\* !repoUrl || !fromDate || !toDate
ReportInputMissing(b) ==
    \/ Missing(b, "repoUrl") \/ b.repoUrl = <<>>
    \/ Missing(b, "fromDate")
    \/ Missing(b, "toDate")

\* The three 400 checks of the selected-commits route: the error, or "".
SelectedInputError(b) ==
    IF Missing(b, "commits") \/ ~b.isArray \/ Len(b.commits) = 0
    THEN "Commits array is required and must not be empty"
    ELSE IF Missing(b, "reportType") \/ Missing(b, "outputFormat")
    THEN "Report type and output format are required"
    ELSE IF b.reportType = "enhanced" /\ Missing(b, "openaiKey")
    THEN "OpenAI API key is required for enhanced reports"
    ELSE ""

\* The ReportController method the handler calls.
RouteMethod(r, b) ==
    IF r = "generate-report"
    THEN (IF b.reportType = "enhanced" THEN "generateEnhancedReport" ELSE "generateQuickReport")
    ELSE (IF b.reportType = "enhanced" THEN "generateEnhancedReportForSelectedCommits"
                                       ELSE "generateQuickReportForSelectedCommits")

\* res.status(s).json({error}) and res.json(reportData)
ErrorResponse(s) == [status |-> s, kind |-> "error", commits |-> <<>>]

DataResponse(cs) == [status |-> 200, kind |-> "data", commits |-> cs]

\* A handler without its catch: the failure leaves the handler.
RouteCatchRethrow(rs) == [responses |-> rs, unhandled |-> TRUE]

\* catch (error) { res.status(500).json({ error: error.message }) }
RouteCatch(rs) == [responses |-> Append(rs, ErrorResponse(500)), unhandled |-> FALSE]

RouteIdle ==
    /\ route = "none"
    /\ body = [given |-> {}, repoUrl |-> <<>>, fromDate |-> NoDate, toDate |-> NoDate,
               reportType |-> "quick", commits |-> <<>>, isArray |-> FALSE]
    /\ hpc = "idle"
    /\ responses = <<>>
    /\ unhandled = FALSE

RouteStart ==
    /\ route \in Routes
    /\ body \in (IF route = "generate-report" THEN ReportBodies ELSE SelectedBodies)
    /\ hpc = "received"
    /\ responses = <<>>
    /\ unhandled = FALSE

\* The handler up to its call of the ReportController: the 400 checks.
RouteEntry ==
    /\ hpc = "received"
    /\ IF (route = "generate-report" /\ ReportInputMissing(body))
          \/ (route = "generate-selected-commits-report" /\ SelectedInputError(body) # "")
       THEN /\ responses' = Append(responses, ErrorResponse(400))
            /\ hpc' = "done"
       ELSE /\ hpc' = "calling"
            /\ UNCHANGED responses
    /\ UNCHANGED <<route, body, unhandled>>
    /\ UNCHANGED <<fetchVars, urlVars, rangeVars, filterVars, analysisVars, analyzeVars, statsVars, renderVars, filenameVars, enhancedVars, quickVars, controllerVars>>

\* await reportController.method(...) returns; res.json(reportData).
RouteReturns ==
    /\ hpc = "calling"
    /\ RouteMethod(route, body) \in ReportControllerMethods
    /\ ValidationError(body.repoUrl, body.fromDate, body.toDate) = ""
    /\ responses' = Append(responses, DataResponse(body.commits))
    /\ hpc' = "done"
    /\ UNCHANGED <<route, body, unhandled>>
    /\ UNCHANGED <<fetchVars, urlVars, rangeVars, filterVars, analysisVars, analyzeVars, statsVars, renderVars, filenameVars, enhancedVars, quickVars, controllerVars>>

\* The call throws: the method is no function, the controller rejects the
\* inputs, or the fetch below it fails.
RouteThrows ==
    /\ hpc = "calling"
    /\ LET caught == RouteCatch(responses)
       IN  /\ responses' = caught.responses
           /\ unhandled' = caught.unhandled
    /\ hpc' = "done"
    /\ UNCHANGED <<route, body>>
    /\ UNCHANGED <<fetchVars, urlVars, rangeVars, filterVars, analysisVars, analyzeVars, statsVars, renderVars, filenameVars, enhancedVars, quickVars, controllerVars>>

(***************************************************************************)
(* The analysis block of ReportController.generateEnhancedReport.  A       *)
(* JavaScript value is a text (its lines) or an array of objects.          *)
(***************************************************************************)
JsText(lines) == [type |-> "string", lines |-> lines, items |-> <<>>]

JsArray(items) == [type |-> "array", lines |-> <<>>, items |-> items]

\* AIAnalysisService.analyzeCommits for commits whose analyses are texts:
\* one {commit, analysis} object for each.
AnalyzeCommits(cs, texts) ==
    JsArray([k \in DOMAIN cs |-> [commit |-> cs[k], analysis |-> texts[k]]])

\* CommitController.analyzeCommitsWithAI
AnalyzeCommitsWithAI(cs, texts) == AnalyzeCommits(cs, texts)

\* The value in a template literal: a text is itself, an array is its
\* elements' strings joined by commas, and an object's string is
\* "[object Object]".
TemplateString(v) ==
    IF v.type = "string" THEN v.lines
    ELSE CASE Len(v.items) = 0 -> <<"">>
           [] Len(v.items) = 1 -> <<"[object Object]">>
           [] OTHER -> <<"[object Object],[object Object]">>

\* The aiAnalyzer the controller hands to the ReportService:
\* (commit) => this.commitController.analyzeCommitsWithAI([commit])
ControllerAnalyzer(commit, text) == AnalyzeCommitsWithAI(<<commit>>, <<text>>)

EnhancedIdle ==
    /\ openaiKey = FALSE
    /\ accomplished = <<>>
    /\ epc = "idle"

EnhancedStart ==
    /\ openaiKey \in BOOLEAN
    /\ accomplished = <<>>
    /\ epc = "analysis"
    /\ AnalysisArgument
    /\ IF openaiKey THEN AnalyzeStart ELSE AnalyzeIdle

\* analysis = this.generateBasicAnalysis(commit), and the block is written.
EnhancedBasic ==
    /\ epc = "analysis"
    /\ ~openaiKey
    /\ accomplished' = TemplateString(JsText(GenerateBasicAnalysis(aCommit)))
    /\ epc' = "done"
    /\ UNCHANGED openaiKey
    /\ UNCHANGED <<fetchVars, urlVars, rangeVars, filterVars, analysisVars, analyzeVars, statsVars, renderVars, filenameVars, routeVars, quickVars, controllerVars>>

\* analysis = await aiAnalyzer(commit), once analyzeCommit has returned,
\* and the block is written.
EnhancedAwait ==
    /\ epc = "analysis"
    /\ openaiKey
    /\ zpc = "done"
    /\ IF aiResult.raised
       THEN /\ epc' = "failed"
            /\ UNCHANGED accomplished
       ELSE /\ accomplished' = TemplateString(ControllerAnalyzer(aCommit, aiResult.text))
            /\ epc' = "done"
    /\ UNCHANGED openaiKey
    /\ UNCHANGED <<fetchVars, urlVars, rangeVars, filterVars, analysisVars, analyzeVars, statsVars, renderVars, filenameVars, routeVars, quickVars, controllerVars>>

(***************************************************************************)
(* QuickGitHubCommitReporter.getCommitsForDate.  The targetDate argument   *)
(* is a date string, or an object with currentDate and endDate.            *)
(***************************************************************************)
Undefined == [defined |-> FALSE, date |-> NoDate]

Defined(d) == [defined |-> TRUE, date |-> d]

StringArgument(d) == [kind |-> "string", date |-> d, currentDate |-> NoDate, endDate |-> NoDate]

ObjectArgument(a, b) == [kind |-> "object", date |-> NoDate, currentDate |-> a, endDate |-> b]

TargetDates ==
    {StringArgument(Date(n)) : n \in 1..MaxDay}
      \cup {ObjectArgument(Date(n), Date(n + 1)) : n \in 1..MaxDay}

\* targetDate.currentDate, targetDate.endDate: a string has neither property.
Property(target, name) ==
    IF target.kind = "object" THEN Defined(target[name]) ELSE Undefined

\* params of the list request
QuickParams(target, p) ==
    [page |-> p,
     since |-> Property(target, "currentDate"),
     until |-> Property(target, "endDate"),
     author |-> "Pushkraj-Space"]

\* The length of page p of a listing of n commits.
QuickPageLength(n, p) ==
    LET rest == n - (p - 1) * PerPage
    IN  IF rest <= 0 THEN 0 ELSE Min(PerPage, rest)

QuickIdle ==
    /\ qTarget = StringArgument(NoDate)
    /\ qTotal = 0
    /\ qPage = 1
    /\ qRequests = <<>>
    /\ qCommits = 0
    /\ qpc = "idle"

QuickStart ==
    /\ qTarget \in TargetDates
    /\ qTotal \in 0..MaxCommits
    /\ qPage = 1
    /\ qRequests = <<>>
    /\ qCommits = 0
    /\ qpc = "list"

\* One turn of the while loop: the list request, the detail of each commit
\* of the page (a null detail is skipped), page++ and the last-page test.
QuickListPage ==
    /\ qpc = "list"
    /\ qRequests' = Append(qRequests, QuickParams(qTarget, qPage))
    /\ LET n == QuickPageLength(qTotal, qPage)
       IN  IF n = 0
           THEN /\ qpc' = "returned"
                /\ UNCHANGED <<qPage, qCommits>>
           ELSE /\ \E pushed \in 0..n : qCommits' = qCommits + pushed
                /\ qPage' = qPage + 1
                /\ qpc' = IF n < PerPage THEN "returned" ELSE "list"
    /\ UNCHANGED <<qTarget, qTotal>>
    /\ UNCHANGED <<fetchVars, urlVars, rangeVars, filterVars, analysisVars, analyzeVars, statsVars, renderVars, filenameVars, routeVars, enhancedVars, controllerVars>>

\* The list request fails: the catch logs and breaks.
QuickListFails ==
    /\ qpc = "list"
    /\ qRequests' = Append(qRequests, QuickParams(qTarget, qPage))
    /\ qpc' = "returned"
    /\ UNCHANGED <<qTarget, qTotal, qPage, qCommits>>
    /\ UNCHANGED <<fetchVars, urlVars, rangeVars, filterVars, analysisVars, analyzeVars, statsVars, renderVars, filenameVars, routeVars, enhancedVars, controllerVars>>

(***************************************************************************)
(* ReportController.generateQuickReport / generateEnhancedReport from the  *)
(* commits on: the author filter, the report and the summary.              *)
(***************************************************************************)
\* The commit with the committer getCommitDetails records beside the author.
WithCommitter(commit, name) ==
    [f \in DOMAIN commit \cup {"committer"} |->
        IF f = "committer" THEN [name |-> name] ELSE commit[f]]

\* "ali", "BOB", "z"
AuthorFilters == { <<>>, <<"a", "l", "i">>, <<"B", "O", "B">>, <<"z">> }

\* The fetched commits: those of the catalogue that add lines (one of each
\* author), each committed by either of two committers.
ControllerCommits ==
    StringsUpTo({WithCommitter(c, n) : c \in {d \in CommitCatalogue : d.stats.additions > 0},
                                       n \in {A_alice, A_bob}},
                MaxStatCommits)

\* A filter that looks at the author's name only.
FilterCommitsByAuthorOnly(cs, author) ==
    SelectSeq(cs, LAMBDA c : Includes(ToLowerCase(c.author.name), ToLowerCase(author)))

\* ReportController.filterCommitsByAuthor
FilterCommitsByAuthor(cs, author) ==
    SelectSeq(cs, LAMBDA c :
        \/ Includes(ToLowerCase(c.author.name), ToLowerCase(author))
        \/ Includes(ToLowerCase(c.committer.name), ToLowerCase(author)))

\* 'No commits found for the date range ${fromDate} to ${toDate}${authorText}'
NoCommitsInRangeLines(dateRange, author) ==
    <<Line("noCommitsInRange", "", 0, author, dateRange, <<>>)>>

NoReportData == [report |-> <<>>, summary |-> [totalCommits |-> -1]]

\* The method from the fetched commits to the value returned.
ReportData(fetched, author, format, type, tz) ==
    LET kept == IF author # <<>> THEN FilterCommitsByAuthor(fetched, author) ELSE fetched
    IN  IF Len(kept) = 0
        THEN [report |-> NoCommitsInRangeLines(ReportDateRange, author),
              summary |-> [totalCommits |-> 0]]
        ELSE [report |-> GenerateReport(kept, ReportDateRange, format, type, tz),
              summary |-> [totalCommits |-> GetReportStatistics(kept).totalCommits]]

ControllerIdle ==
    /\ cCommits = <<>>
    /\ cAuthor = <<>>
    /\ cType = "none"
    /\ cFormat = "none"
    /\ cResult = NoReportData
    /\ cpc = "idle"

ControllerStart ==
    /\ cCommits \in ControllerCommits
    /\ cAuthor \in AuthorFilters
    /\ cType \in ReportTypes
    /\ cFormat \in Formats
    /\ cResult = NoReportData
    /\ cpc = "fetched"

\* The author filter, the report, the statistics and the return.
BuildReportData ==
    /\ cpc = "fetched"
    /\ cResult' = ReportData(cCommits, cAuthor, cFormat, cType, rZone)
    /\ cpc' = "done"
    /\ UNCHANGED <<cCommits, cAuthor, cType, cFormat>>
    /\ UNCHANGED <<fetchVars, urlVars, rangeVars, filterVars, analysisVars, analyzeVars, statsVars, renderVars, filenameVars, routeVars, enhancedVars, quickVars>>

(***************************************************************************)
(* Specifications.                                                         *)
(***************************************************************************)
FetchInit == FetchStart /\ UrlIdle /\ RangeIdle /\ FilterIdle /\ AnalysisIdle /\ AnalyzeIdle /\ StatsIdle /\ RenderIdle /\ FilenameIdle /\ RouteIdle /\ EnhancedIdle /\ QuickIdle /\ ControllerIdle

SpecFetch == FetchInit /\ [][FetchNext]_vars

\* Every request eventually returns or fails: the loop keeps taking steps.
SpecFetchLive == FetchInit /\ [][FetchNext]_vars /\ WF_vars(FetchNext)

UrlInit == UrlStart /\ FetchIdle /\ RangeIdle /\ FilterIdle /\ AnalysisIdle /\ AnalyzeIdle /\ StatsIdle /\ RenderIdle /\ FilenameIdle /\ RouteIdle /\ EnhancedIdle /\ QuickIdle /\ ControllerIdle

UrlNext == ExtractStep

SpecUrl == UrlInit /\ [][UrlNext]_vars

RangeInit == RangeStart /\ FetchIdle /\ UrlIdle /\ FilterIdle /\ AnalysisIdle /\ AnalyzeIdle /\ StatsIdle /\ RenderIdle /\ FilenameIdle /\ RouteIdle /\ EnhancedIdle /\ QuickIdle /\ ControllerIdle

RangeNext == ControllerEntry \/ CommitFetch

SpecRange == RangeInit /\ [][RangeNext]_vars

FilterInit == FilterStart /\ FetchIdle /\ UrlIdle /\ RangeIdle /\ AnalysisIdle /\ AnalyzeIdle /\ StatsIdle /\ RenderIdle /\ FilenameIdle /\ RouteIdle /\ EnhancedIdle /\ QuickIdle /\ ControllerIdle

FilterNext == FilterStep

SpecFilter == FilterInit /\ [][FilterNext]_vars

AnalysisInit == AnalysisStart /\ FetchIdle /\ UrlIdle /\ RangeIdle /\ FilterIdle /\ AnalyzeIdle /\ StatsIdle /\ RenderIdle /\ FilenameIdle /\ RouteIdle /\ EnhancedIdle /\ QuickIdle /\ ControllerIdle

AnalysisNext == AnalysisStep

SpecAnalysis == AnalysisInit /\ [][AnalysisNext]_vars

AnalyzeInit == AnalyzeStart /\ AnalysisArgument /\ FetchIdle /\ UrlIdle /\ RangeIdle /\ FilterIdle /\ StatsIdle /\ RenderIdle /\ FilenameIdle /\ RouteIdle /\ EnhancedIdle /\ QuickIdle /\ ControllerIdle

AnalyzeNext == AnalyzeEntry \/ AnalyzeExternal

SpecAnalyze == AnalyzeInit /\ [][AnalyzeNext]_vars

ReportInit == StatsStart /\ RenderStart /\ FetchIdle /\ UrlIdle /\ RangeIdle /\ FilterIdle /\ AnalysisIdle /\ AnalyzeIdle /\ FilenameIdle /\ RouteIdle /\ EnhancedIdle /\ QuickIdle /\ ControllerIdle

ReportNext == ComputeStatistics \/ RenderReport

SpecReport == ReportInit /\ [][ReportNext]_vars

FilenameInit == FilenameStart /\ FetchIdle /\ UrlIdle /\ RangeIdle /\ FilterIdle /\ AnalysisIdle /\ AnalyzeIdle /\ StatsIdle /\ RenderIdle /\ RouteIdle /\ EnhancedIdle /\ QuickIdle /\ ControllerIdle

FilenameNext == Tick \/ SynthesizeFilename

SpecFilename == FilenameInit /\ [][FilenameNext]_vars

RouteInit == RouteStart /\ FetchIdle /\ UrlIdle /\ RangeIdle /\ FilterIdle /\ AnalysisIdle /\ AnalyzeIdle /\ StatsIdle /\ RenderIdle /\ FilenameIdle /\ EnhancedIdle /\ QuickIdle /\ ControllerIdle

RouteNext == RouteEntry \/ RouteReturns \/ RouteThrows

SpecRoute == RouteInit /\ [][RouteNext]_vars

EnhancedInit == EnhancedStart /\ FetchIdle /\ UrlIdle /\ RangeIdle /\ FilterIdle /\ StatsIdle /\ RenderIdle /\ FilenameIdle /\ RouteIdle /\ QuickIdle /\ ControllerIdle

EnhancedNext == AnalyzeEntry \/ AnalyzeExternal \/ EnhancedBasic \/ EnhancedAwait

SpecEnhanced == EnhancedInit /\ [][EnhancedNext]_vars

QuickInit == QuickStart /\ FetchIdle /\ UrlIdle /\ RangeIdle /\ FilterIdle /\ AnalysisIdle /\ AnalyzeIdle /\ StatsIdle /\ RenderIdle /\ FilenameIdle /\ RouteIdle /\ EnhancedIdle /\ ControllerIdle

QuickNext == QuickListPage \/ QuickListFails

SpecQuick == QuickInit /\ [][QuickNext]_vars

ControllerInit == ControllerStart /\ FetchIdle /\ UrlIdle /\ RangeIdle /\ FilterIdle /\ AnalysisIdle /\ AnalyzeIdle /\ StatsIdle /\ RenderIdle /\ FilenameIdle /\ RouteIdle /\ EnhancedIdle /\ QuickIdle

ControllerNext == BuildReportData

SpecController == ControllerInit /\ [][ControllerNext]_vars

(***************************************************************************)
(* What the request log says.                                              *)
(***************************************************************************)
Terminal == pc \in {"returned", "raised"}

RECURSIVE ListedIn(_)
\* The shas listed by the successful list requests among the first n requests.
ListedIn(n) ==
    IF n = 0 THEN <<>>
    ELSE LET r == requests[n]
         IN  IF r.kind = "list" /\ r.ok THEN ListedIn(n - 1) \o Page(r.arg)
             ELSE ListedIn(n - 1)

Listed == ListedIn(Len(requests))

DetailSucceeded(sha) ==
    \E i \in DOMAIN requests : requests[i] = Request("detail", sha, TRUE)

ListRequests == SelectSeq(requests, LAMBDA r : r.kind = "list")

PageRequested(k) == \E i \in DOMAIN requests : requests[i].kind = "list" /\ requests[i].arg = k

PageReturned(k) == \E i \in DOMAIN requests : requests[i] = Request("list", k, TRUE)

FailedDetails == {i \in DOMAIN requests : requests[i].kind = "detail" /\ ~requests[i].ok}

FailedLists == {i \in DOMAIN requests : requests[i].kind = "list" /\ ~requests[i].ok}

\* The commits accumulated from the pages before page k: those listed there
\* whose detail request succeeded, in listing order.
RECURSIVE ListedBefore(_)
ListedBefore(k) == IF k <= 1 THEN <<>> ELSE ListedBefore(k - 1) \o Page(k - 1)

(***************************************************************************)
(* Claims about getCommits.                                                *)
(***************************************************************************)
\* C1: a failed detail request is non-fatal in both getCommits: no error is
\* raised to the caller, the commit is omitted while every other listed
\* commit whose detail request succeeded is returned, and a page that held
\* exactly per_page items is still followed by the request for the next page.
C1_DetailFailureNonFatal ==
    FailedDetails # {} =>
        /\ pc # "raised"
        /\ pc = "returned" => commits = SelectSeq(Listed, DetailSucceeded)
        /\ pc = "returned" =>
             \A k \in 1..page :
                (PageReturned(k) /\ Len(Page(k)) = PerPage) => PageRequested(k + 1)

\* C2: when the list request for page k fails, getCommits issues no further
\* request and returns, without raising, exactly the commits accumulated from
\* pages 1..k-1, in both implementations.
C2_ListFailureReturnsPartial ==
    \A i \in FailedLists :
        /\ i = Len(requests)
        /\ pc = "returned"
        /\ commits = SelectSeq(ListedBefore(requests[i].arg), DetailSucceeded)

\* C3: pages are requested as 1, 2, 3, ...; once getCommits has ended, page
\* n+1 was requested if and only if page n returned exactly per_page items.
C3_PaginationContinuesIffFullPage ==
    /\ \A j \in DOMAIN ListRequests : ListRequests[j].arg = j
    /\ Terminal =>
         \A n \in 1..page :
            PageReturned(n) => (PageRequested(n + 1) <=> Len(Page(n)) = PerPage)

\* C4: the sequence getCommits returns is exactly the listed commits whose
\* detail request succeeded, each once, in listing order.
C4_ReturnedInListingOrder ==
    pc = "returned" => commits = SelectSeq(Listed, DetailSucceeded)

\* C4 witness: a run over two pages returned after dropping one commit and
\* keeping at least two.
C4_Witness ==
    /\ pc = "returned"
    /\ FailedDetails # {}
    /\ Len(commits) >= 2
    /\ PageReturned(2)

(***************************************************************************)
(* Claims about extractRepoInfo.                                           *)
(***************************************************************************)
\* Owner and repository names: no "/", no blank, not ending in ".git".
RepoNames ==
    {n \in StringsUpTo({"a", DotGit}, 3) : n # <<>> /\ n[Len(n)] # DotGit}

\* The four supported forms of a reference to owner O, repository R.
SupportedForms(O, R) ==
    { <<Https>> \o O \o <<Slash>> \o R,
      <<Https>> \o O \o <<Slash>> \o R \o <<DotGit>>,
      <<Ssh>> \o O \o <<Slash>> \o R \o <<DotGit>>,
      <<Ssh>> \o O \o <<Slash>> \o R }

\* C9: each of the four supported forms resolves to {owner: O, repo: R}, and
\* a string with neither prefix, or whose path does not have exactly two
\* segments, raises an invalid-reference error.
C9_ExtractRepoInfoForms ==
    upc = "done" =>
        /\ \A O \in RepoNames, R \in RepoNames :
              repoUrl \in SupportedForms(O, R) =>
                  repoInfo.ok /\ repoInfo.owner = O /\ repoInfo.repo = R
        /\ (~StartsWith(repoUrl, Https) /\ ~StartsWith(repoUrl, Ssh)) => ~repoInfo.ok
        /\ ((StartsWith(repoUrl, Https) \/ StartsWith(repoUrl, Ssh))
              /\ Len(Split(Tail(repoUrl))) # 2) => ~repoInfo.ok

(***************************************************************************)
(* Claims about the date window.                                           *)
(***************************************************************************)
\* C5: a date-range fetch with bounds (from, to) sends the list request with
\* since = from and until = to plus one day.
C5_RangeWindowAddsOneDay ==
    (op \in {"getCommitsForDateRange", "getCommitsForDate"} /\ netCalls > 0
       /\ IsValidDate(fromDate) /\ IsValidDate(toDate)) =>
        window = [since |-> fromDate, until |-> AddOneDay(toDate)]

\* C6: CommitController.getCommitsForDateRange(url, d, d) issues the same
\* upstream window and returns the same sequence as getCommitsForDate(url, d).
C6_RangeOfOneDayEqualsDate ==
    (op = "getCommitsForDateRange" /\ rpc = "done" /\ netCalls > 0
       /\ IsValidDate(fromDate) /\ fromDate = toDate) =>
        /\ window = DateOptions(fromDate)
        /\ result = UpstreamList(DateOptions(fromDate))

InvalidRequest ==
    \/ ~ExtractRepoInfo(reqUrl).ok
    \/ ~IsValidDate(fromDate)
    \/ ~IsValidDate(toDate)
    \/ fromDate.day > toDate.day

\* C8: generateQuickReport, generateEnhancedReport and getReportSummary reject
\* an invalid repository reference, an unparsable date and from > to with an
\* error before any network request; from == to is accepted.
C8_ValidationBeforeNetwork ==
    op \in {"generateQuickReport", "generateEnhancedReport", "getReportSummary"} =>
        /\ InvalidRequest => (netCalls = 0 /\ (rpc = "done" => outcome = "error"))
        /\ (~InvalidRequest /\ fromDate = toDate /\ rpc = "done") => outcome = "ok"

(***************************************************************************)
(* Claims about filterCommitsByDate.                                       *)
(***************************************************************************)
\* The calendar day of a timestamp read in the offset it is written in.
OwnCalendarDate(ts) == ((ts.utc + ts.off) \div 24) + 1

\* C7: filterCommitsByDate returns, in their original order, exactly the
\* commits whose author timestamp falls on the target date when read in the
\* timestamp's own UTC offset, whatever the machine's zone.
C7_FilterByAuthorDateInOwnOffset ==
    fpc = "done" =>
        filtered = SelectSeq(fCommits, LAMBDA c : OwnCalendarDate(c.author) = targetDate)

(***************************************************************************)
(* Claims about generateBasicAnalysis.                                     *)
(***************************************************************************)
TopicHeader(t) == TopicBlock(t)[1]

StackHeaders == {FullStackBlock[1], BackendBlock[1], FrontendBlock[1]}

\* The positions of a line in the analysis returned.
Occurrences(line) == {i \in DOMAIN analysisLines : analysisLines[i] = line}

\* The block stands in the analysis, whole, from position i on.
BlockAt(i, block) ==
    /\ i + Len(block) - 1 <= Len(analysisLines)
    /\ SubSeq(analysisLines, i, i + Len(block) - 1) = block

MatchingTopics == {n \in DOMAIN Topics : TopicMatches(Topics[n], aCommit)}

TopicKeywords(t) ==
    CASE t = "auth" -> {K_auth}
      [] t = "api" -> {K_api}
      [] t = "ui" -> {K_ui, K_css, K_jsx}
      [] t = "test" -> {K_test}
      [] t = "readme" -> {K_readme}
      [] t = "env" -> {K_env}
      [] t = "package" -> {K_package}

\* A keyword of the topic occurs in some changed file path or in the message.
KeywordEvidence(t) ==
    \E k \in TopicKeywords(t) :
        SomeFileIncludes(aCommit.files, k) \/ MessageIncludes(aCommit.message, k)

HasBlock(block) == \E i \in DOMAIN analysisLines : BlockAt(i, block)

\* C11: for each of the seven topic groups the topic's block is emitted if and
\* only if a keyword of the topic occurs, case-insensitively, in some changed
\* file path or in the commit message.
C11_TopicUsesFilesAndMessage ==
    apc = "done" =>
        \A n \in DOMAIN Topics : HasBlock(TopicBlock(Topics[n])) <=> KeywordEvidence(Topics[n])

\* backendFiles / frontendFiles of the commit analysed.
BackendBucket == FilesWithExtension(aCommit.files, BackendExtensions)

FrontendBucket == FilesWithExtension(aCommit.files, FrontendExtensions)

EndsWith(str, suf) ==
    /\ Len(suf) <= Len(str)
    /\ SubSeq(str, Len(str) - Len(suf) + 1, Len(str)) = suf

\* The file name's extension is one of the set.
HasExtension(f, exts) == \E ext \in exts : EndsWith(ToLowerCase(f), ext)

\* C13: a commit whose changed files all have a frontend extension and none a
\* backend extension receives the frontend-only block, not the full-stack or
\* the backend-only block.
C13_FrontendExtensionsGiveFrontendBlock ==
    (/\ apc = "done"
     /\ aCommit.files # <<>>
     /\ \A i \in DOMAIN aCommit.files :
           /\ HasExtension(aCommit.files[i], FrontendExtensions)
           /\ ~HasExtension(aCommit.files[i], BackendExtensions)) =>
        /\ HasBlock(FrontendBlock)
        /\ ~HasBlock(FullStackBlock)
        /\ ~HasBlock(BackendBlock)

(***************************************************************************)
(* Claims about analyzeCommit.                                             *)
(***************************************************************************)
\* The analyzer failed: the call threw or timed out, or its response is
\* malformed.
AnalyzerFailed ==
    /\ hasKey
    /\ \/ aiReply.kind \in {"throws", "timeout"}
       \/ aiReply.kind = "response" /\ aiReply.shape # "text"

\* C14: analyzeCommit never propagates an analyzer failure: with no analyzer
\* credential, or when the external call throws, times out or returns a
\* malformed response, it returns exactly generateBasicAnalysis(commit) and
\* raises nothing.
C14_AnalyzerFailureFallsBack ==
    (zpc = "done" /\ (~hasKey \/ AnalyzerFailed)) =>
        aiResult = Returned(GenerateBasicAnalysis(aCommit))

\* C14 witness: a credential is configured, the response came back malformed,
\* and the heuristic text of a commit with a topic was returned.
C14_Witness ==
    /\ zpc = "done"
    /\ hasKey
    /\ aiReply.kind = "response" /\ aiReply.shape = "emptyChoices"
    /\ ~aiResult.raised
    /\ aiResult.text # GeneralBlock
    /\ Len(aiResult.text) > 0

(***************************************************************************)
(* Claims about the statistics.                                            *)
(***************************************************************************)
\* C15: for every commit sequence the statistics satisfy netChanges =
\* totalAdditions - totalDeletions, with totalCommits the sequence length and
\* totalAdditions / totalDeletions the sums of the commits' stats.
C15_NetChangesIsDifference ==
    spc = "done" =>
        /\ statistics.netChanges = statistics.totalAdditions - statistics.totalDeletions
        /\ statistics.totalCommits = Len(sCommits)
        /\ statistics.totalAdditions = Sum([i \in DOMAIN sCommits |-> sCommits[i].stats.additions])
        /\ statistics.totalDeletions = Sum([i \in DOMAIN sCommits |-> sCommits[i].stats.deletions])

\* C15 witness: statistics of two commits with deletions among them.
C15_Witness ==
    /\ spc = "done"
    /\ Len(sCommits) = 2
    /\ statistics.totalDeletions > 0
    /\ statistics.totalAdditions > statistics.totalDeletions

\* The position in the input of the author's first commit.
FirstCommitOf(name) ==
    CHOOSE i \in DOMAIN sCommits :
        /\ sCommits[i].author.name = name
        /\ \A j \in 1..(i - 1) : sCommits[j].author.name # name

RECURSIVE FlatFiles(_)
\* The file names of the commits, in input order, commit by commit.
FlatFiles(cs) ==
    IF cs = <<>> THEN <<>>
    ELSE FlatFiles(SubSeq(cs, 1, Len(cs) - 1))
           \o [j \in DOMAIN cs[Len(cs)].files |-> cs[Len(cs)].files[j].filename]

\* The position in the input at which the file is first seen.
FirstSeen(filename) ==
    CHOOSE i \in DOMAIN FlatFiles(sCommits) :
        /\ FlatFiles(sCommits)[i] = filename
        /\ \A j \in 1..(i - 1) : FlatFiles(sCommits)[j] # filename

\* C17: topContributors is ordered by non-increasing commit count, equal
\* counts in the order of the contributors' first commits in the input;
\* fileStatistics is ordered by non-increasing total changes, ties in
\* first-seen order.
C17_RankingTiesInFirstSeenOrder ==
    (spc = "done" /\ sImpl = "getCommitStatistics") =>
        /\ \A i, j \in DOMAIN statistics.topContributors :
              i < j =>
                LET a == statistics.topContributors[i]
                    b == statistics.topContributors[j]
                IN  \/ a.commits > b.commits
                    \/ a.commits = b.commits /\ FirstCommitOf(a.name) < FirstCommitOf(b.name)
        /\ \A i, j \in DOMAIN statistics.fileStatistics :
              i < j =>
                LET a == statistics.fileStatistics[i]
                    b == statistics.fileStatistics[j]
                IN  \/ a.changes > b.changes
                    \/ a.changes = b.changes /\ FirstSeen(a.filename) < FirstSeen(b.filename)

\* The distinct authors and the distinct file paths of the input.
DistinctAuthors == {sCommits[i].author.name : i \in DOMAIN sCommits}

DistinctFiles == {FlatFiles(sCommits)[i] : i \in DOMAIN FlatFiles(sCommits)}

\* C18: the aggregate is never truncated: getCommitStatistics returns one
\* fileStatistics entry for every distinct file path and one contributor
\* entry for every distinct author of the input, however many there are.
C18_AggregateNotTruncated ==
    (spc = "done" /\ sImpl = "getCommitStatistics") =>
        /\ {statistics.topContributors[i].name : i \in DOMAIN statistics.topContributors}
              = DistinctAuthors
        /\ {statistics.fileStatistics[i].filename : i \in DOMAIN statistics.fileStatistics}
              = DistinctFiles

\* C16: given zero commits, the statistics operation returns totalCommits,
\* totalAdditions, totalDeletions, netChanges and averageChangesPerCommit all
\* 0 with topContributors and fileStatistics both empty sequences, and the
\* report body is a "No commits found" message, not an empty text.
C16_ZeroCommits ==
    sCommits = <<>> =>
        /\ spc = "done" =>
              statistics = [totalCommits |-> 0, totalAdditions |-> 0, totalDeletions |-> 0,
                            netChanges |-> 0, averageChangesPerCommit |-> 0,
                            topContributors |-> <<>>, fileStatistics |-> <<>>]
        /\ \A f \in rendered :
              /\ reports[f] # <<>>
              /\ reports[f][1].kind = "noCommits"

(***************************************************************************)
(* Claims about the report text.                                           *)
(***************************************************************************)
\* The lines that enumerate commits and files, their decoration removed.
Enumeration(lines) ==
    LET content == SelectSeq(lines, LAMBDA l : l.kind \in {"commit", "author", "changes", "file"})
    IN  [k \in DOMAIN content |-> [content[k] EXCEPT !.deco = ""]]

RECURSIVE ExpectedEnumeration(_, _)
\* Commits 1..n in input order, each with message, author, time, additions
\* and deletions, then its files in their order with status label and
\* change count.
ExpectedEnumeration(cs, n) ==
    IF n = 0 THEN <<>>
    ELSE ExpectedEnumeration(cs, n - 1)
           \o << Line("commit", "", n, Trim(cs[n].message), "", <<>>),
                 Line("author", "", 0, cs[n].author.name, "",
                      <<FormatLocalTime(cs[n].author.date.utc, rZone)>>),
                 Line("changes", "", 0, <<>>, "",
                      <<cs[n].stats.additions, cs[n].stats.deletions>>) >>
           \o [j \in DOMAIN cs[n].files |->
                  Line("file", "", 0, cs[n].files[j].filename,
                       GetStatusEmoji(cs[n].files[j].status), <<cs[n].files[j].changes>>)]

\* C19: for every commit sequence, the text and the markdown rendering
\* enumerate the same commits with the numbering 1..n in input order and,
\* within each commit, the same files in the same order with the same fields;
\* the two differ only in decoration.
C19_TextAndMarkdownEnumerateAlike ==
    {"text", "markdown"} \subseteq rendered =>
        /\ Enumeration(reports["text"]) = Enumeration(reports["markdown"])
        /\ Enumeration(reports["text"]) = ExpectedEnumeration(sCommits, Len(sCommits))

\* C19 witness: two commits, one of them with two files, rendered as text
\* and as markdown.
C19_Witness ==
    /\ {"text", "markdown"} \subseteq rendered
    /\ Len(sCommits) = 2
    /\ \E i \in DOMAIN sCommits : Len(sCommits[i].files) = 2
    /\ reports["text"] # reports["markdown"]

\* JSON.parse of the report text: the text is JSON only if it begins with a
\* JSON value; a text beginning "Hey, on", "# Hey, on" or "No commits found"
\* is a syntax error.
IsJsonText(lines) ==
    /\ lines # <<>>
    /\ lines[1].kind \notin {"header", "noCommits"}

\* C20: a report asked for with format json is emitted as JSON of the full
\* structured report, from which the report can be parsed back, on the path
\* the CLI uses for --format json.
C20_JsonFormatIsJson ==
    "json" \in rendered => IsJsonText(reports["json"])

(***************************************************************************)
(* Claims about the requests getCommits issues.                            *)
(***************************************************************************)
\* C25: getCommits issues exactly one detail request per commit summary of
\* each listing page, in listing order, all of them before the list request
\* for the next page; a run with P list requests and C listed summaries
\* issues P + C requests.
C25_OneDetailPerListedCommit ==
    Terminal =>
        /\ Len(requests) = Len(ListRequests) + Len(Listed)
        /\ \A i \in DOMAIN requests :
              (requests[i].kind = "list" /\ requests[i].ok) =>
                  \A j \in DOMAIN Page(requests[i].arg) :
                      /\ i + j <= Len(requests)
                      /\ requests[i + j].kind = "detail"
                      /\ requests[i + j].arg = Page(requests[i].arg)[j]

\* The first page that is empty or shorter than per_page.
LastPageOfListing == (total \div PerPage) + 1

\* C28: getCommits terminates: with a finite listing and every request
\* eventually returning or failing, the loop ends, returning or raising, and
\* it never requests a page beyond the first empty or short page.
C28_GetCommitsTerminates ==
    /\ <>Terminal
    /\ [](\A i \in DOMAIN requests :
             requests[i].kind = "list" => requests[i].arg <= LastPageOfListing)

\* C28 witness: a run over full pages that ended on the empty page after
\* them.
C28_Witness ==
    /\ pc = "returned"
    /\ total = 2 * PerPage
    /\ PageRequested(3)
    /\ Len(commits) = total

(***************************************************************************)
(* Claims about the owner and repository extractRepoInfo returns.          *)
(***************************************************************************)
\* The name with a trailing ".git" removed, and nothing else.
StripGitSuffix(name) ==
    IF name # <<>> /\ name[Len(name)] = DotGit THEN SubSeq(name, 1, Len(name) - 1) ELSE name

\* C30: for every accepted reference extractRepoInfo returns a non-empty
\* owner and a non-empty repo: the first path segment unchanged and the
\* second path segment with only a trailing ".git" removed.
C30_OwnerAndRepoOfAcceptedReference ==
    (upc = "done" /\ repoInfo.ok) =>
        LET segments == Split(Tail(repoUrl))
        IN  /\ Len(segments) = 2
            /\ repoInfo.owner # <<>>
            /\ repoInfo.repo # <<>>
            /\ repoInfo.owner = segments[1]
            /\ repoInfo.repo = StripGitSuffix(segments[2])

(***************************************************************************)
(* Claims about the report filename.                                       *)
(***************************************************************************)
\* The extension the format calls for.
ExtensionOf(format) ==
    CASE format = "text" -> "txt"
      [] format = "markdown" -> "md"
      [] format = "html" -> "html"
      [] format = "json" -> "json"

\* C21: the filename the report pipeline synthesizes (ReportService's
\* generateFilename) is {reportType}-report-{dateRange}-{timestamp}.{ext}
\* with ext txt for text, md for markdown, html for html and json for json.
C21_FilenameExtensionOfFormat ==
    \A i \in DOMAIN synth :
        synth[i].class = "ReportService" =>
            /\ synth[i].name.reportType = synth[i].reportType
            /\ synth[i].name.dateRange = ReportDateRange
            /\ synth[i].name.extension = ExtensionOf(synth[i].format)

\* C22: two filename syntheses made at different times in one process for
\* the same report type, date range and format yield distinct filenames.
C22_FilenamesDistinctOverTime ==
    \A i, j \in DOMAIN synth :
        (/\ synth[i].at # synth[j].at
         /\ synth[i].class = synth[j].class
         /\ synth[i].reportType = synth[j].reportType
         /\ synth[i].format = synth[j].format) =>
            synth[i].name # synth[j].name

(***************************************************************************)
(* Claims about the API routes.                                            *)
(***************************************************************************)
\* C23: a request to POST /api/generate-report gets exactly one response:
\* the report data, or a JSON error with status 400 exactly when repoUrl,
\* fromDate or toDate is missing and status 500 for a failure below the
\* handler; no failure leaves the handler uncaught.
C23_ExactlyOneResponse ==
    route = "generate-report" =>
        /\ ~unhandled
        /\ Len(responses) <= 1
        /\ hpc = "done" =>
              /\ Len(responses) = 1
              /\ responses[1].status = 400 <=> ReportInputMissing(body)
              /\ \/ responses[1].status = 200 /\ responses[1].kind = "data"
                 \/ responses[1].status \in {400, 500} /\ responses[1].kind = "error"

C23_Witness ==
    /\ route = "generate-report"
    /\ hpc = "done"
    /\ ~ReportInputMissing(body)
    /\ ValidationError(body.repoUrl, body.fromDate, body.toDate) # ""
    /\ responses = <<ErrorResponse(500)>>

\* C27: a request to POST /api/generate-selected-commits-report is answered
\* 400 exactly when commits is missing, no array or empty, reportType or
\* outputFormat is missing, or reportType is enhanced without openaiKey,
\* and otherwise with the report data for exactly the commits sent.
C27_SelectedCommitsReport ==
    (route = "generate-selected-commits-report" /\ hpc = "done") =>
        /\ Len(responses) = 1
        /\ responses[1].status = 400 <=> SelectedInputError(body) # ""
        /\ SelectedInputError(body) = "" => responses[1] = DataResponse(body.commits)

(***************************************************************************)
(* Claims about the enhanced report's analysis block.                      *)
(***************************************************************************)
\* C24: in a report of ReportController.generateEnhancedReport the text
\* under "What you accomplished" is the categorizer's text for that commit:
\* the analyzer's text when an openaiKey was supplied, the heuristic text
\* otherwise.
C24_AccomplishedIsCategorizerText ==
    epc = "done" =>
        accomplished = IF openaiKey THEN aiResult.text ELSE GenerateBasicAnalysis(aCommit)

(***************************************************************************)
(* Claims about QuickGitHubCommitReporter.getCommitsForDate.               *)
(***************************************************************************)
\* C26: getCommitsForDate called with a YYYY-MM-DD date string sends every
\* list request with since = the date and until = the following day.
C26_QuickRequestsCarryTheDay ==
    qTarget.kind = "string" =>
        \A i \in DOMAIN qRequests :
            /\ qRequests[i].since = Defined(qTarget.date)
            /\ qRequests[i].until = Defined(AddOneDay(qTarget.date))

(***************************************************************************)
(* Claims about the controller's report data.                              *)
(***************************************************************************)
\* The commit blocks of a report: its 'Commit n: message' lines.
CommitBlocks(report) == {i \in DOMAIN report : report[i].kind = "commit"}

\* The fetched commits the author filter keeps: all when no author is given,
\* else those whose author or committer name contains it, case aside.
KeptByAuthor ==
    {i \in DOMAIN cCommits :
        \/ cAuthor = <<>>
        \/ Includes(ToLowerCase(cCommits[i].author.name), ToLowerCase(cAuthor))
        \/ Includes(ToLowerCase(cCommits[i].committer.name), ToLowerCase(cAuthor))}

\* C29: in the data generateQuickReport / generateEnhancedReport return,
\* summary.totalCommits equals the number of commit blocks of the report,
\* and both count the commits left by the author filter.
C29_TotalCommitsMatchesBlocks ==
    cpc = "done" =>
        /\ cResult.summary.totalCommits = Cardinality(CommitBlocks(cResult.report))
        /\ cResult.summary.totalCommits = Cardinality(KeptByAuthor)

C29_Witness ==
    /\ cpc = "done"
    /\ cAuthor = <<"B", "O", "B">>
    /\ Len(cCommits) = 2
    /\ cResult.summary.totalCommits = 1
    /\ \E i \in KeptByAuthor : cCommits[i].author.name = A_alice

====
